---- MODULE Spec2Model ----
(***************************************************************************)
(* GReX-T0: packet capture ordering (capture.rs), the voltage ring buffer *)
(* with its windowed dump and the dump task (dumps.rs), pulse injection    *)
(* (injection.rs) and the pipeline that connects them (pipeline.rs).       *)
(*                                                                         *)
(* A payload is the record [count, data]; data stands for the whole        *)
(* 2 x CHANNELS x 2 block of int8 samples of one datagram, and ZeroData is *)
(* the block whose samples are all zero.  Packet counts are u64 in the     *)
(* code; the model keeps them far below 2^64, so count + 1 never wraps.    *)
(* payload_sender.send blocks until the queue has room; its receiver is    *)
(* taken to be alive, so every send succeeds, and payload_sender records   *)
(* what was sent.                                                          *)
(***************************************************************************)
EXTENDS Integers, Sequences, FiniteSets, TLC

\* ---------------------------------------------------------------- bounds
MaxCount == 4       \* datagram counts are drawn from 0..MaxCount
MaxRecv == 5        \* datagrams the capture socket delivers in one run
MaxStats == 1       \* statistics samples capture publishes in one run
MaxPower == 1       \* the ring is built with size_power in 0..MaxPower
MaxRingCount == 6   \* payloads pushed into the ring have counts in 0..MaxRingCount

\* ------------------------------------------------------ program constants
TIMESTAMP_SIZE == 8
SPECTRA_SIZE == 8192
PAYLOAD_SIZE == SPECTRA_SIZE + TIMESTAMP_SIZE
CHANNELS == 2048

\* ------------------------------------------------------------ payloads
ZeroData == 0

\* The samples of the k-th datagram received: every datagram carries a block
\* of its own, none of them the all-zero block
DatagramData(k) == k
Counts == 0..MaxCount

\* Payload { count, ..Default::default() }: every sample zeroed
DefaultPayload(c) == [count |-> c, data |-> ZeroData]

\* Lengths of the datagrams the socket may deliver: exact, short, long
DatagramLens == {PAYLOAD_SIZE, PAYLOAD_SIZE - 8, PAYLOAD_SIZE + 8}

VARIABLES
    \* Capture (capture.rs)
    cap_pc,                 \* position of Capture::start: "check", "recv", "done", "err"
    datagram_len,           \* bytes of the datagram taken in this turn of the loop as
                            \* the sender sent it, 0 before recv (ghost: recv returns
                            \* at most the size of the buffer)
    shutdown,               \* the shutdown broadcast has been sent
    first_payload,
    next_expected_count,
    drops,
    shuffled,
    processed,
    FIRST_PACKET,
    payload_sender,         \* every payload sent on the payload queue, in order
    stats_send,             \* every statistics sample the stats channel accepted
    received,               \* payloads of the correctly sized datagrams received, in order
    \* DumpRing (dumps.rs)
    capacity,
    write_ptr,
    buffer,                 \* the rows of the buffer, slot 0 first
    oldest,
    full,
    last,
    overflow_checks,        \* the build panics on integer overflow (debug profile)
    call,                   \* the most recent DumpRing call and its arguments
    ret,                    \* how that call ended: "Ok", "Err" or "panic"
    file,                   \* the file that call created, NoFile if it created none
    \* Reference ring, kept beside the code's fields to state what it should hold
    held,                   \* the data a ring of this capacity holds, oldest payload first
    run,                    \* [first, n]: n consecutive pushes since empty, from count first
    \* dump_task and the two channels it reads (dumps.rs)
    task_pc,                \* position of dump_task: "loop", "recv", "reset", "drain_triggers",
                            \* "drain_payloads", "done", "panic"
    downsample_power,
    signal_receiver,        \* the trigger datagrams forwarded by trigger_task, oldest first
    payload_reciever,       \* the payloads queued for the ring, oldest first
    payload_closed,         \* the sending side of the payload queue is gone
    drain_i,                \* iterations done of the payload drain loop
    skipped_triggers,
    warned,                 \* warnings logged about triggers that did not decode
    triggers_sent,          \* trigger datagrams forwarded so far
    fed,                    \* payloads sent into the payload queue so far
    \* inject (injection.rs)
    v3,                     \* the processor has the x86-64-v3 instructions
    inj_pl,                 \* the payload inject is called on, as bytes
    inj_orig,               \* that payload before the first call
    inj_log,                \* the pulse rows injected so far, in order
    inj_ret,                \* how the last call of inject ended: "Ok" or "panic"
    \* the pipeline around capture and dump_task (pipeline.rs)
    src_next,               \* count of the next datagram the FPGA sends
    sock,                   \* counts of the datagrams in the socket buffer, oldest first
    lost_counts,            \* counts of the datagrams lost because the socket buffer was full
    cap_taken,              \* payloads downsample_task has received from the capture queue
    ds_acc,                 \* payloads downsample_task has accumulated for the next frame
    ex_chan,                \* Stokes frames queued for the exfil sink, oldest first
    exfil_out,              \* Stokes frames the exfil sink has received, in order
    \* pulse_injection_task (injection.rs)
    injections,             \* Injections.pulses: the pulses loaded, [filename, rows]
    inj_task,               \* the locals of pulse_injection_task: pc ("check", "recv",
                            \* "done", "err", "panic"), this_pulse (index of the pulse in
                            \* injections), i, currently_injecting,
                            \* current_pulse_length; n (ghost) counts the payloads
                            \* received, restarted (ghost) tells that the cadence elapsed
                            \* during an injection
    output,                 \* payloads sent on output, in order: [count, added], added
                            \* the <<pulse, row>> that inject added, <<>> if none
    injection_record_sender, \* InjectionRecords sent, in order: [sample, filename]
    injection_events,       \* the records in the channel, sent and not yet received
                            \* by db_task
    \* the count of a payload, byte by byte (capture.rs, common.rs)
    wire,                   \* seq: the sequence number the sender puts in its next
                            \* datagram; datagram: the first 8 bytes of the datagram
                            \* taken last; count: payload.count as read from them;
                            \* first_payload, next_expected_count: as in Capture;
                            \* verdict: the branch of the ordering taken; n: datagrams
                            \* taken
    \* the exfil consumers (exfil/dummy.rs, exfil/filterbank.rs) and main (main.rs)
    exfil,                  \* the exfil thread: consumer ("dummy", "filterbank" or
                            \* "dada", as the command line chose) and pc ("block",
                            \* "check", "recv", "done", "err")
    threads,                \* how each thread or task stands that is not modelled step
                            \* by step: "run", "Ok", "Err"
    boot,                   \* start_pipeline up to the threads: pc ("setup",
                            \* "triggered", "gains", "spawn", "running", "failed"),
                            \* packet_start (what the trigger returned), T0 (the
                            \* Option<Epoch> behind payload_start_time()), workers
                            \* (the threads and tasks spawned), reads (ghost: what
                            \* each call of payload_time gave, None for a panic)
    stokes,                 \* stokes_i: a, b (the two polarizations as [i8; 4096]),
                            \* dst (out after the call, <<>> before), ret
    sup                     \* main: pc ("await", "join", "exit"), joined (handles
                            \* joined so far), result

capVars == <<cap_pc, datagram_len, shutdown, first_payload, next_expected_count, drops,
             shuffled, processed, FIRST_PACKET, payload_sender, stats_send, received>>

ringVars == <<capacity, write_ptr, buffer, oldest, full, last, overflow_checks,
              call, ret, file, held, run>>

taskVars == <<task_pc, downsample_power, signal_receiver, payload_reciever,
              payload_closed, drain_i, skipped_triggers, warned, triggers_sent, fed>>

injVars == <<v3, inj_pl, inj_orig, inj_log, inj_ret>>

pipeVars == <<src_next, sock, lost_counts, cap_taken, ds_acc, ex_chan, exfil_out>>

workVars == <<injections, inj_task, output, injection_record_sender, injection_events,
              wire, exfil, threads, sup, boot, stokes>>

vars == <<capVars, ringVars, taskVars, injVars, pipeVars, workVars>>

\* What a step of capture, a call on the ring alone, a step of dump_task or
\* of its feeders, and a call of inject leave as they are
offCapture == <<ringVars, taskVars, injVars, pipeVars, workVars>>
offRing == <<capVars, taskVars, injVars, pipeVars, workVars>>
offTask == <<capVars, injVars, pipeVars, workVars>>
offInject == <<capVars, ringVars, taskVars, pipeVars, workVars>>

\* ------------------------------------------------------------- Capture
\* Capture::new and the statics of common.rs
CaptureInit ==
    /\ cap_pc = "check"
    /\ datagram_len = 0
    /\ shutdown = FALSE
    /\ first_payload = TRUE
    /\ next_expected_count = 0
    /\ drops = 0
    /\ shuffled = 0
    /\ processed = 0
    /\ FIRST_PACKET = 0
    /\ payload_sender = <<>>
    /\ stats_send = <<>>
    /\ received = <<>>

\* The entries sent for one payload: [payload, synth]; synth marks a payload
\* that capture built itself to fill a gap.
Real(pl) == [count |-> pl.count, data |-> pl.data, synth |-> FALSE]

\* Faulty variant: the payload built for a gap carries samples that are not zero
Fill_NotZeroed(c) == [count |-> c, data |-> DatagramData(c + 1), synth |-> TRUE]

Fill(c) == [count |-> c, data |-> DefaultPayload(c).data, synth |-> TRUE]

\* Faulty variant: the fill loop numbers the synthesized payloads from 1, not from 0
ZeroFills_FromOne(from, n) == [d \in 1..n |-> Fill(from + d)]

\* for d in 0..drops { send(Payload { count: next_expected_count + d, .. }) }
ZeroFills(from, n) == [d \in 1..n |-> Fill(from + (d - 1))]

\* First payload ever seen: forward it, publish its count, expect count + 1
OrderFirst(pl) ==
    /\ first_payload' = FALSE
    /\ payload_sender' = Append(payload_sender, Real(pl))
    /\ FIRST_PACKET' = pl.count
    /\ next_expected_count' = pl.count + 1
    /\ UNCHANGED <<drops, shuffled>>

\* Faulty variant: the expected payload is forwarded but next_expected_count is not
\* advanced
OrderExpected_NoAdvance(pl) ==
    /\ payload_sender' = Append(payload_sender, Real(pl))
    /\ UNCHANGED <<first_payload, FIRST_PACKET, drops, shuffled, next_expected_count>>

\* payload.count == self.next_expected_count
OrderExpected(pl) ==
    /\ next_expected_count' = next_expected_count + 1
    /\ payload_sender' = Append(payload_sender, Real(pl))
    /\ UNCHANGED <<first_payload, FIRST_PACKET, drops, shuffled>>

\* Faulty variant: a packet from the past is counted and forwarded all the same
OrderPast_Forward(pl) ==
    /\ shuffled' = shuffled + 1
    /\ payload_sender' = Append(payload_sender, Real(pl))
    /\ UNCHANGED <<first_payload, FIRST_PACKET, drops, next_expected_count>>

\* payload.count < self.next_expected_count: a packet from the past is dropped
OrderPast(pl) ==
    /\ shuffled' = shuffled + 1
    /\ UNCHANGED <<first_payload, FIRST_PACKET, drops, next_expected_count,
                   payload_sender>>

\* Faulty variant: a gap counts as one drop whatever its size
OrderGap_DropsByOne(pl) ==
    LET gap == pl.count - next_expected_count IN
    /\ payload_sender' = Append(payload_sender \o ZeroFills(next_expected_count, gap),
                                Real(pl))
    /\ drops' = drops + 1
    /\ next_expected_count' = pl.count + 1
    /\ UNCHANGED <<first_payload, FIRST_PACKET, shuffled>>

\* payload.count > self.next_expected_count: fill the gap with zeros, then
\* send this payload
OrderGap(pl) ==
    LET gap == pl.count - next_expected_count IN
    /\ payload_sender' = Append(payload_sender \o ZeroFills(next_expected_count, gap),
                                Real(pl))
    /\ drops' = drops + gap
    /\ next_expected_count' = pl.count + 1
    /\ UNCHANGED <<first_payload, FIRST_PACKET, shuffled>>

\* Faulty variant: a jump in the count is taken for a new first payload, so
\* its count is published again
Order_GapRestarts(pl) ==
    IF first_payload THEN OrderFirst(pl)
    ELSE IF pl.count = next_expected_count THEN OrderExpected(pl)
    ELSE IF pl.count < next_expected_count THEN OrderPast(pl)
    ELSE OrderFirst(pl)

\* The ordering branch of Capture::start for one payload
Order(pl) ==
    IF first_payload THEN OrderFirst(pl)
    ELSE IF pl.count = next_expected_count THEN OrderExpected(pl)
    ELSE IF pl.count < next_expected_count THEN OrderPast(pl)
    ELSE OrderGap(pl)

\* Top of the loop: shutdown.try_recv()
CaptureCheck ==
    /\ cap_pc = "check"
    /\ cap_pc' = IF shutdown THEN "done" ELSE "recv"
    /\ datagram_len' = 0
    /\ UNCHANGED <<shutdown, first_payload, next_expected_count, drops, shuffled,
                   processed, FIRST_PACKET, payload_sender, stats_send, received>>
    /\ UNCHANGED offCapture

\* if last_stats.elapsed() >= stats_polling_time { let _ = stats_send.try_send(..) }
\* tick is what the clock and the channel decide: the interval has not
\* elapsed, or it has and the channel takes the sample, or it has and the
\* channel is full, the sample being dropped.  processed is already counted.
PublishStats(tick) ==
    IF tick = "sent" THEN
        stats_send' = Append(stats_send, [drops |-> drops, processed |-> processed',
                                          shuffled |-> shuffled])
    ELSE UNCHANGED stats_send

StatsTicks == IF Len(stats_send) < MaxStats THEN {"none", "sent", "full"}
              ELSE {"none", "full"}

\* Faulty variant: with the stats channel full the turn waits in the send of
\* the sample, the datagram taken and nothing forwarded
CaptureOne_StatsBlock(len, c, tick) ==
    LET n == IF len < PAYLOAD_SIZE THEN len ELSE PAYLOAD_SIZE
        pl == [count |-> c, data |-> DatagramData(Len(received) + 1)] IN
    /\ datagram_len' = len
    /\ IF n # PAYLOAD_SIZE THEN
          /\ cap_pc' = "err"
          /\ UNCHANGED <<first_payload, next_expected_count, drops, shuffled,
                         processed, FIRST_PACKET, payload_sender, stats_send, received>>
       ELSE IF tick = "full" THEN
          /\ cap_pc' = "recv"
          /\ UNCHANGED <<first_payload, next_expected_count, drops, shuffled,
                         processed, FIRST_PACKET, payload_sender, stats_send, received>>
       ELSE
          /\ cap_pc' = "check"
          /\ processed' = processed + 1
          /\ PublishStats(tick)
          /\ received' = Append(received, pl)
          /\ Order(pl)

\* One turn of the loop of Capture::start on a datagram of len bytes that
\* carries count c.  sock.recv fills the 8200-byte buffer: a longer datagram
\* is cut to the buffer, a shorter one returns n < buf.len() and capture
\* returns SizeMismatch
CaptureOne(len, c, tick) ==
    LET n == IF len < PAYLOAD_SIZE THEN len ELSE PAYLOAD_SIZE
        pl == [count |-> c, data |-> DatagramData(Len(received) + 1)] IN
    /\ datagram_len' = len
    /\ IF n # PAYLOAD_SIZE THEN
          /\ cap_pc' = "err"
          /\ UNCHANGED <<first_payload, next_expected_count, drops, shuffled,
                         processed, FIRST_PACKET, payload_sender, stats_send, received>>
       ELSE
          /\ cap_pc' = "check"
          /\ processed' = processed + 1
          /\ PublishStats(tick)
          /\ received' = Append(received, pl)
          /\ Order(pl)

\* The socket delivers a datagram of any length and count
CaptureRecv ==
    /\ cap_pc = "recv"
    /\ Len(received) < MaxRecv
    /\ \E len \in DatagramLens, c \in Counts, tick \in StatsTicks : CaptureOne(len, c, tick)
    /\ UNCHANGED shutdown
    /\ UNCHANGED offCapture

\* The supervisor broadcasts shutdown
Shutdown ==
    /\ ~shutdown
    /\ shutdown' = TRUE
    /\ UNCHANGED <<cap_pc, datagram_len, first_payload, next_expected_count, drops,
                   shuffled, processed, FIRST_PACKET, payload_sender, stats_send,
                   received>>
    /\ UNCHANGED offCapture


\* -------------------------------------------------------- row sequences
\* The time axis of the ring buffer, of its views and of the voltages
\* variable of a dump file is a sequence of rows, one row being the data of
\* one payload.  A sequence of rows is kept as its list of maximal runs
\* [v, n]: n rows that are payload data v, v + 1, ..., v + n - 1 when v > 0,
\* and n rows all holding the fill value v when v <= 0.  Equal sequences of
\* rows have equal lists of runs.
Run(v, n) == [v |-> v, n |-> n]

\* Row j, from 0, of a run
RowOf(r, j) == IF r.v > 0 THEN r.v + j ELSE r.v

\* Run r carries on run t
Follows(t, r) == IF t.v > 0 THEN r.v = t.v + t.n ELSE r.v = t.v

\* n rows: v, v + 1, ... for payload data, n times v for a fill value
RFill(v, n) == IF n = 0 THEN <<>> ELSE <<Run(v, n)>>

\* Concatenation
RCat(a, b) ==
    IF a = <<>> THEN b
    ELSE IF b = <<>> THEN a
    ELSE IF Follows(a[Len(a)], b[1]) THEN
        [a EXCEPT ![Len(a)] = Run(a[Len(a)].v, a[Len(a)].n + b[1].n)] \o Tail(b)
    ELSE a \o b

\* Number of rows
RECURSIVE RLen(_)
RLen(q) == IF q = <<>> THEN 0 ELSE q[1].n + RLen(Tail(q))

\* All but the first k rows
RECURSIVE RDrop(_, _)
RDrop(q, k) ==
    IF k = 0 \/ q = <<>> THEN q
    ELSE IF q[1].n <= k THEN RDrop(Tail(q), k - q[1].n)
    ELSE <<Run(RowOf(q[1], k), q[1].n - k)>> \o Tail(q)

\* The first k rows
RECURSIVE RTake(_, _)
RTake(q, k) ==
    IF k = 0 \/ q = <<>> THEN <<>>
    ELSE IF q[1].n <= k THEN <<q[1]>> \o RTake(Tail(q), k - q[1].n)
    ELSE <<Run(q[1].v, k)>>

\* Rows lo..hi-1, counted from 0
RSub(q, lo, hi) == RTake(RDrop(q, lo), hi - lo)

\* Row i, counted from 0
RAt(q, i) == RDrop(q, i)[1].v

\* Row i replaced by v
RSet(q, i, v) == RCat(RCat(RTake(q, i), RFill(v, 1)), RDrop(q, i + 1))

\* The last k rows
RKeepLast(q, k) == IF RLen(q) <= k THEN q ELSE RDrop(q, RLen(q) - k)

\* ------------------------------------------------------------ DumpRing
\* Option<u64>
None == <<>>
Some(x) == <<x>>
Unwrap(o) == o[1]

\* buffer.fill(0xDEu8 as i8): the byte 0xDE read as a signed byte
DE_FILL == 222 - 256

RingCounts == 0..MaxRingCount

\* The samples carried by the payload with count c: the payloads pushed into
\* the ring carry data that tells them apart, none of it the fill byte
DataOf(c) == c + 1
RingPayload(c) == [count |-> c, data |-> DataOf(c)]
NoFile == [exists |-> FALSE]
NoCall == [op |-> "new"]
NoRun == [first |-> 0, n |-> 0]

\* The reference ring takes a payload: a count that does not follow the last
\* one held empties it, any other payload is kept with the capacity - 1
\* payloads before it
Breaks(pl) == run.n # 0 /\ pl.count # run.first + run.n
HeldAfter(pl) ==
    IF Breaks(pl) THEN <<>> ELSE RKeepLast(RCat(held, RFill(pl.data, 1)), capacity)
RunAfter(pl) ==
    IF Breaks(pl) THEN NoRun
    ELSE IF run.n = 0 THEN [first |-> pl.count, n |-> 1]
    ELSE [first |-> run.first, n |-> run.n + 1]

\* Elements of one time sample of the buffer: (2, CHANNELS, 2)
SAMPLE_ELEMS == 2 * CHANNELS * 2

\* DumpRing::new(size_power)
RingNew(size_power) ==
    /\ capacity = 2 ^ size_power
    /\ buffer = RFill(DE_FILL, 2 ^ size_power)
    /\ write_ptr = 0
    /\ full = FALSE
    /\ oldest = None
    /\ last = None

RingInit ==
    /\ \E size_power \in 0..MaxPower : RingNew(size_power)
    /\ overflow_checks \in BOOLEAN
    /\ call = NoCall
    /\ ret = "Ok"
    /\ file = NoFile
    /\ held = <<>>
    /\ run = NoRun

\* Faulty variant: reset forgets the last pushed count
ResetFields_KeepLast ==
    /\ write_ptr' = 0
    /\ full' = FALSE
    /\ oldest' = None
    /\ last' = last

\* The fields reset() assigns
ResetFields ==
    /\ write_ptr' = 0
    /\ full' = FALSE
    /\ oldest' = None
    /\ last' = None

\* DumpRing::reset
Reset ==
    /\ ret # "panic"
    /\ ResetFields
    /\ call' = [op |-> "reset"]
    /\ ret' = "Ok"
    /\ file' = NoFile
    /\ held' = <<>>
    /\ run' = NoRun
    /\ UNCHANGED <<capacity, buffer, overflow_checks>>

\* Faulty variant: the wrap of write_ptr does not set full
PushStore_NeverFull(pl, newLast) ==
    /\ buffer' = RSet(buffer, write_ptr, pl.data)
    /\ write_ptr' = (write_ptr + 1) % capacity
    /\ IF oldest = None THEN
           /\ oldest' = Some(pl.count)
           /\ last' = Some(pl.count)
           /\ UNCHANGED full
       ELSE
           /\ last' = newLast
           /\ oldest' = IF full THEN Some(Unwrap(oldest) + 1) ELSE oldest
           /\ UNCHANGED full

\* The part of push after the monotonicity test: copy, move the pointer,
\* then track oldest and full
PushStore(pl, newLast) ==
    /\ buffer' = RSet(buffer, write_ptr, pl.data)
    /\ write_ptr' = (write_ptr + 1) % capacity
    /\ IF oldest = None THEN
           /\ oldest' = Some(pl.count)
           /\ last' = Some(pl.count)
           /\ UNCHANGED full
       ELSE
           /\ last' = newLast
           /\ oldest' = IF full THEN Some(Unwrap(oldest) + 1) ELSE oldest
           /\ full' = IF (write_ptr + 1) % capacity = 0 /\ ~full THEN TRUE ELSE full

\* DumpRing::push
Push(pl) ==
    /\ ret # "panic"
    /\ call' = [op |-> "push", pl |-> pl]
    /\ ret' = "Ok"
    /\ file' = NoFile
    /\ IF last # None /\ pl.count # Unwrap(last) + 1 THEN
           /\ ResetFields
           /\ UNCHANGED buffer
       ELSE IF last # None THEN PushStore(pl, Some(pl.count))
       ELSE PushStore(pl, last)
    /\ held' = HeldAfter(pl)
    /\ run' = RunAfter(pl)
    /\ UNCHANGED <<capacity, overflow_checks>>

\* Rows lo..hi-1 of the buffer as a sequence (an ndarray slice along time)
Rows(lo, hi) == RSub(buffer, lo, hi)

\* DumpRing::consecutive_views
consecutive_views ==
    IF ~full THEN <<Rows(0, write_ptr), <<>>>>
    ELSE <<Rows(write_ptr, capacity), Rows(0, write_ptr)>>

\* The value of a voltages cell no put has written (the netCDF byte fill)
UNWRITTEN == -127

\* ndarray slice of rows lo..hi-1 of a view: out of bounds panics
Slice(v, lo, hi) ==
    IF lo > hi \/ hi > RLen(v) THEN [ok |-> FALSE, rows |-> <<>>]
    ELSE [ok |-> TRUE, rows |-> RSub(v, lo, hi)]

\* ndarray len(): the total number of elements of the array, all axes.  The
\* code counts in 64-bit usize; a count of 2^30 elements or more stands here
\* as 2^30, which like the count itself is above every time dimension
ArrayLen(rows) ==
    IF RLen(rows) < 2 ^ 30 \div SAMPLE_ELEMS THEN RLen(rows) * SAMPLE_ELEMS
    ELSE 2 ^ 30

\* voltages.put((lo..hi, .., .., ..), rows): the extent must lie within the
\* time dimension and have the shape of the array put, else the put fails
Put(vol, lo, hi, rows) ==
    IF lo > hi \/ hi > RLen(vol) \/ hi - lo # RLen(rows) THEN [ok |-> FALSE, vol |-> vol]
    ELSE [ok |-> TRUE,
          vol |-> RCat(RCat(RTake(vol, lo), rows), RDrop(vol, hi))]

Created(n, vol) == [exists |-> TRUE, time |-> n, voltages |-> vol]

\* 1. The range is entirely in the first view
DumpInA(a, o, start, stop, size, blank) ==
    LET start_idx == start - o
        stop_idx == stop - o
        slice == Slice(a, start_idx, stop_idx + 1)
        put == Put(blank, 0, size, slice.rows) IN
    IF ~slice.ok THEN [ret |-> "panic", file |-> Created(size, blank)]
    ELSE IF ~put.ok THEN [ret |-> "Err", file |-> Created(size, blank)]
    ELSE [ret |-> "Ok", file |-> Created(size, put.vol)]

\* The two slices of the branch 'between a and b':
\* a.slice(s![start_idx.., ..]) and b.slice(s![..=stop_idx, ..])
SpanSlices(a, b, a_len, o, start, stop) ==
    LET start_idx == start - o
        stop_idx == stop - o + a_len IN
    [a_slice |-> Slice(a, start_idx, a_len), b_slice |-> Slice(b, 0, stop_idx + 1)]

\* 2. The range is between the two views
DumpInAB(a, b, a_len, o, start, stop, size, blank) ==
    LET a_slice == SpanSlices(a, b, a_len, o, start, stop).a_slice
        a_put == Put(blank, 0, ArrayLen(a_slice.rows), a_slice.rows)
        b_slice == SpanSlices(a, b, a_len, o, start, stop).b_slice
        b_put == Put(a_put.vol, ArrayLen(a_slice.rows), size, b_slice.rows) IN
    IF ~a_slice.ok THEN [ret |-> "panic", file |-> Created(size, blank)]
    ELSE IF ~a_put.ok THEN [ret |-> "Err", file |-> Created(size, blank)]
    ELSE IF ~b_slice.ok THEN [ret |-> "panic", file |-> Created(size, a_put.vol)]
    ELSE IF ~b_put.ok THEN [ret |-> "Err", file |-> Created(size, a_put.vol)]
    ELSE [ret |-> "Ok", file |-> Created(size, b_put.vol)]

\* 3. The range is entirely in the second view
DumpInB(b, a_len, o, start, stop, size, blank) ==
    LET oldest_b == o + a_len
        start_idx == start - oldest_b
        stop_idx == stop - oldest_b
        slice == Slice(b, start_idx, stop_idx + 1)
        put == Put(blank, 0, size, slice.rows) IN
    IF ~slice.ok THEN [ret |-> "panic", file |-> Created(size, blank)]
    ELSE IF ~put.ok THEN [ret |-> "Err", file |-> Created(size, blank)]
    ELSE [ret |-> "Ok", file |-> Created(size, put.vol)]

\* The bounds test of dump
OutOfBounds(o, newest, start, stop) ==
    \/ start < o
    \/ start > newest
    \/ stop < o
    \/ stop > newest
    \/ start > stop

\* DumpRing::dump(start_sample, stop_sample, path): how it ends and the file
\* it leaves.  stop_sample - start_sample + 1 is computed before the bounds
\* test: with stop < start the u64 subtraction panics when overflow checks
\* are on and wraps when they are off, the wrapped size being unused because
\* the bounds test then returns.
DumpOutcome(start, stop) ==
    IF oldest = None THEN [ret |-> "Ok", file |-> NoFile]
    ELSE
        LET o == Unwrap(oldest)
            newest == o + capacity - 1 IN
        IF stop < start /\ overflow_checks THEN [ret |-> "panic", file |-> NoFile]
        ELSE IF OutOfBounds(o, newest, start, stop) THEN [ret |-> "Ok", file |-> NoFile]
        ELSE
            LET size == stop - start + 1
                blank == RFill(UNWRITTEN, size)
                a == consecutive_views[1]
                b == consecutive_views[2]
                a_len == RLen(a) IN
            IF o + a_len > stop THEN DumpInA(a, o, start, stop, size, blank)
            ELSE IF o + a_len > start THEN DumpInAB(a, b, a_len, o, start, stop, size, blank)
            ELSE DumpInB(b, a_len, o, start, stop, size, blank)

DumpRange == 0..(MaxRingCount + 1)

\* A call of dump; the ring itself is only read
Dump(start, stop) ==
    /\ ret # "panic"
    /\ call' = [op |-> "dump", start |-> start, stop |-> stop]
    /\ LET out == DumpOutcome(start, stop) IN
         ret' = out.ret /\ file' = out.file
    /\ UNCHANGED <<capacity, write_ptr, buffer, oldest, full, last, overflow_checks,
                   held, run>>

\* The calls made on a ring that nothing else touches
RingPush == (\E c \in RingCounts : Push(RingPayload(c))) /\ UNCHANGED offRing
RingReset == Reset /\ UNCHANGED offRing
\* dump only reads the ring, so a dump called right after a dump ends as it
\* would have ended in its place: the dumps are drawn after other calls
RingDump ==
    /\ call.op # "dump"
    /\ \E start \in DumpRange, stop \in DumpRange : Dump(start, stop)
    /\ UNCHANGED offRing

\* The ring as built by DumpRing::new, never used
RingIdle ==
    /\ RingNew(0)
    /\ overflow_checks = FALSE
    /\ call = NoCall
    /\ ret = "Ok"
    /\ file = NoFile
    /\ held = <<>>
    /\ run = NoRun

\* -------------------------------------------------- DumpRing::trigger_dump
DUMP_SIZE == 262144

\* TriggerMessage { candname, itime }
TriggerMessage(candname, itime) == [candname |-> candname, itime |-> itime]

\* The window branch of trigger_dump, taken when capacity > DUMP_SIZE.
\* true_sample - DUMP_SIZE / 2 + 1 is evaluated left to right in u64: with
\* true_sample < DUMP_SIZE / 2 the subtraction panics when overflow checks
\* are on and wraps when they are off.  A wrapped difference of -1 is
\* brought back to 0 by the + 1; any other wrapped begin_sample is at least
\* 2^64 - DUMP_SIZE / 2, above every count of the model, which makes
\* newest < begin_sample true.
TriggerWindow(tm, downsample_factor, o, newest) ==
    LET true_sample == tm.itime * downsample_factor + FIRST_PACKET
        underflow == true_sample < DUMP_SIZE \div 2
        begin_sample == true_sample - DUMP_SIZE \div 2 + 1
        wrapped == begin_sample < 0
        end_sample == true_sample + DUMP_SIZE \div 2 IN
    IF underflow /\ overflow_checks THEN [ret |-> "panic", file |-> NoFile]
    ELSE IF o > end_sample THEN [ret |-> "Err", file |-> NoFile]
    ELSE IF wrapped \/ newest < begin_sample THEN [ret |-> "Err", file |-> NoFile]
    ELSE DumpOutcome(IF o > begin_sample THEN o ELSE begin_sample,
                     IF newest < end_sample THEN newest ELSE end_sample)

\* Faulty variant: the window is applied to a ring of any capacity
TriggerDumpOutcome_WindowAlways(tm, downsample_factor) ==
    IF oldest = None THEN [ret |-> "Err", file |-> NoFile]
    ELSE TriggerWindow(tm, downsample_factor, Unwrap(oldest),
                       Unwrap(oldest) + capacity - 1)

\* DumpRing::trigger_dump(path, tm, downsample_factor): how it ends and the
\* file it leaves; an error of dump is passed on by the ? operator
TriggerDumpOutcome(tm, downsample_factor) ==
    IF oldest = None THEN [ret |-> "Err", file |-> NoFile]
    ELSE
        LET o == Unwrap(oldest)
            newest == o + capacity - 1 IN
        IF capacity <= DUMP_SIZE THEN DumpOutcome(o, newest)
        ELSE TriggerWindow(tm, downsample_factor, o, newest)

\* A call of trigger_dump; the ring itself is only read
TriggerDump(tm, downsample_factor) ==
    /\ ret # "panic"
    /\ call' = [op |-> "trigger_dump", tm |-> tm,
                downsample_factor |-> downsample_factor]
    /\ LET out == TriggerDumpOutcome(tm, downsample_factor) IN
         ret' = out.ret /\ file' = out.file
    /\ UNCHANGED <<capacity, write_ptr, buffer, oldest, full, last, overflow_checks,
                   held, run>>

\* Capture after the first datagram, of count fp, was received and forwarded
CaptureAfterFirst(fp) ==
    LET pl == [count |-> fp, data |-> DatagramData(1)] IN
    /\ cap_pc = "check"
    /\ datagram_len = PAYLOAD_SIZE
    /\ shutdown = FALSE
    /\ first_payload = FALSE
    /\ next_expected_count = fp + 1
    /\ drops = 0
    /\ shuffled = 0
    /\ processed = 1
    /\ FIRST_PACKET = fp
    /\ payload_sender = <<Real(pl)>>
    /\ stats_send = <<>>
    /\ received = <<pl>>

\* The ring built by DumpRing::new(size_power), size_power >= 1, after n
\* pushes of the consecutive counts f, ..., f + n - 1: slot i holds the last
\* of these payloads that landed on it, the newest ones in slots
\* 0..write_ptr-1 and the older ones after them once the ring has wrapped
RingAfter(size_power, f, n) ==
    LET C == 2 ^ size_power
        kept == IF n > C THEN C ELSE n
        first == f + n - kept IN
    /\ capacity = C
    /\ buffer = IF n <= C THEN RCat(RFill(DataOf(f), n), RFill(DE_FILL, C - n))
                ELSE RCat(RFill(DataOf(f + n - (n % C)), n % C),
                          RFill(DataOf(first), C - (n % C)))
    /\ write_ptr = n % C
    /\ full = (n >= C)
    /\ oldest = IF n = 0 THEN None ELSE Some(first)
    /\ last = IF n = 0 THEN None ELSE Some(f + n - 1)
    /\ held = RFill(DataOf(first), kept)
    /\ run = IF n = 0 THEN NoRun ELSE [first |-> f, n |-> n]

\* The rings trigger_dump is called on: one no larger than DUMP_SIZE of
\* 2 slots, one of 1024, and one larger than DUMP_SIZE
TriggerPowers == {1, 10, 19}

\* How far such a ring has been filled: empty, one payload, half, exactly
\* full, and wrapped around by half its capacity
Fills(C) == {0, 1, C \div 2, C, C + C \div 2}

\* The count of the first packet captured, and how many counts later the
\* run held by the ring began
FirstCounts == {0, 3}
Skips == {0, 2 ^ 19}

\* itime of the triggers sent and the 2^downsample_power they are scaled by
Itimes == {256, 384, 1000, 32767, 32768, 65536, 125000, 170000}
Factors == {2, 4}

TriggerInit ==
    /\ \E size_power \in TriggerPowers, fp \in FirstCounts, skip \in Skips :
         \E n \in Fills(2 ^ size_power) :
            /\ CaptureAfterFirst(fp)
            /\ RingAfter(size_power, fp + skip, n)
    /\ overflow_checks \in BOOLEAN
    /\ call = NoCall
    /\ ret = "Ok"
    /\ file = NoFile

\* One trigger on each ring drawn: trigger_dump only reads the ring, so a
\* second call would see what the first one saw
RingTrigger ==
    /\ call = NoCall
    /\ \E itime \in Itimes, downsample_factor \in Factors :
         TriggerDump(TriggerMessage("cand", itime), downsample_factor)
    /\ UNCHANGED offRing

\* ------------------------------------------------------------ dump_task
\* The payload queue of the dump task holds MaxDumpChan payloads in the
\* model; MaxTriggers trigger datagrams and MaxFed payloads are sent in a run
MaxDumpChan == 1
MaxTriggers == 3
MaxFed == 3

\* sync_channel(5): the trigger queue between trigger_task and dump_task
TRIG_CHAN == 5

\* A trigger datagram: whether its bytes are UTF-8, whether the text is the
\* JSON of a TriggerMessage, and the message it then stands for
Datagram(utf8, json, tm) == [utf8 |-> utf8, json |-> json, tm |-> tm]
TaskMessage == TriggerMessage("cand", 256)
TriggerDatagrams ==
    {Datagram(TRUE, TRUE, TaskMessage), Datagram(TRUE, FALSE, TaskMessage),
     Datagram(FALSE, FALSE, TaskMessage)}

\* String::from_utf8(bytes)
FromUtf8(bytes) == IF bytes.utf8 THEN Some(bytes) ELSE None

\* Faulty variant: every text is taken for the JSON of a TriggerMessage
FromStr_AcceptsAll(str) == Some(str.tm)

\* serde_json::from_str::<TriggerMessage>(&s)
FromStr(str) == IF str.json THEN Some(str.tm) ELSE None

\* dump_task not started, its queues empty
TaskIdle ==
    /\ task_pc = "loop"
    /\ downsample_power = 1
    /\ signal_receiver = <<>>
    /\ payload_reciever = <<>>
    /\ payload_closed = FALSE
    /\ drain_i = 0
    /\ skipped_triggers = 0
    /\ warned = 0
    /\ triggers_sent = 0
    /\ fed = 0

\* dump_task at its start, for any downsample_power of the model
TaskInit ==
    /\ task_pc = "loop"
    /\ downsample_power \in {1, 2}
    /\ signal_receiver = <<>>
    /\ payload_reciever = <<>>
    /\ payload_closed = FALSE
    /\ drain_i = 0
    /\ skipped_triggers = 0
    /\ warned = 0
    /\ triggers_sent = 0
    /\ fed = 0

\* if shutdown.try_recv().is_ok() { break }
TaskStop ==
    /\ task_pc = "loop"
    /\ shutdown
    /\ task_pc' = "done"
    /\ UNCHANGED <<downsample_power, signal_receiver, payload_reciever, payload_closed,
                   drain_i, skipped_triggers, triggers_sent, fed>>
    /\ UNCHANGED <<offTask, ringVars>>
    /\ UNCHANGED warned

\* if let Ok(bytes) = signal_receiver.try_recv(): decode, and on a decoded
\* message call trigger_dump; a message that does not decode is warned
\* about and the loop starts over
TaskTrigger ==
    /\ task_pc = "loop"
    /\ ~shutdown
    /\ signal_receiver # <<>>
    /\ signal_receiver' = Tail(signal_receiver)
    /\ LET tm_str == FromUtf8(Head(signal_receiver)) IN
       IF tm_str = None THEN
           /\ warned' = warned + 1
           /\ UNCHANGED <<task_pc, ringVars>>
       ELSE IF FromStr(Unwrap(tm_str)) = None THEN
           /\ warned' = warned + 1
           /\ UNCHANGED <<task_pc, ringVars>>
       ELSE
           /\ TriggerDump(Unwrap(FromStr(Unwrap(tm_str))), 2 ^ downsample_power)
           /\ task_pc' = IF ret' = "panic" THEN "panic" ELSE "reset"
           /\ UNCHANGED warned
    /\ UNCHANGED <<downsample_power, payload_reciever, payload_closed, drain_i,
                   skipped_triggers, triggers_sent, fed>>
    /\ UNCHANGED offTask

\* Faulty variant: the turn waits for a payload without looking at the
\* trigger queue
TaskPoll_TriggersIgnored ==
    /\ task_pc = "loop"
    /\ ~shutdown
    /\ task_pc' = "recv"
    /\ UNCHANGED <<downsample_power, signal_receiver, payload_reciever, payload_closed,
                   drain_i, skipped_triggers, triggers_sent, fed>>
    /\ UNCHANGED <<offTask, ringVars>>
    /\ UNCHANGED warned

\* signal_receiver.try_recv() finds no trigger: the turn goes to the else
\* branch and waits for a payload
TaskPoll ==
    /\ task_pc = "loop"
    /\ ~shutdown
    /\ signal_receiver = <<>>
    /\ task_pc' = "recv"
    /\ UNCHANGED <<downsample_power, signal_receiver, payload_reciever, payload_closed,
                   drain_i, skipped_triggers, triggers_sent, fed>>
    /\ UNCHANGED <<offTask, ringVars>>
    /\ UNCHANGED warned

\* payload_reciever.recv_timeout(BLOCK_TIMEOUT), then ring.push; a timeout
\* (nothing queued for BLOCK_TIMEOUT) starts the loop over, a closed queue
\* ends the task.  Neither shutdown nor the trigger queue is looked at here.
TaskReceive ==
    /\ task_pc = "recv"
    /\ IF payload_reciever # <<>> THEN
           /\ Push(Head(payload_reciever))
           /\ payload_reciever' = Tail(payload_reciever)
           /\ task_pc' = "loop"
       ELSE
           /\ task_pc' = IF payload_closed THEN "done" ELSE "loop"
           /\ UNCHANGED <<payload_reciever, ringVars>>
    /\ UNCHANGED <<downsample_power, signal_receiver, payload_closed, drain_i,
                   skipped_triggers, triggers_sent, fed>>
    /\ UNCHANGED offTask
    /\ UNCHANGED warned

\* ring.reset() after trigger_dump returned, with Ok or with an error
TaskReset ==
    /\ task_pc = "reset"
    /\ Reset
    /\ task_pc' = "drain_triggers"
    /\ skipped_triggers' = 0
    /\ UNCHANGED <<downsample_power, signal_receiver, payload_reciever, payload_closed,
                   drain_i, triggers_sent, fed>>
    /\ UNCHANGED offTask
    /\ UNCHANGED warned

\* Faulty variant: the drain throws away one trigger at most
TaskDrainTriggers_OneOnly ==
    /\ task_pc = "drain_triggers"
    /\ task_pc' = "drain_payloads"
    /\ drain_i' = 0
    /\ IF signal_receiver # <<>> THEN
           /\ signal_receiver' = Tail(signal_receiver)
           /\ skipped_triggers' = skipped_triggers + 1
       ELSE UNCHANGED <<signal_receiver, skipped_triggers>>
    /\ UNCHANGED <<downsample_power, payload_reciever, payload_closed, triggers_sent, fed>>
    /\ UNCHANGED <<offTask, ringVars>>
    /\ UNCHANGED warned

\* while signal_receiver.try_recv().is_ok() { skipped_triggers += 1 }
TaskDrainTriggers ==
    /\ task_pc = "drain_triggers"
    /\ IF signal_receiver # <<>> THEN
           /\ signal_receiver' = Tail(signal_receiver)
           /\ skipped_triggers' = skipped_triggers + 1
           /\ UNCHANGED <<task_pc, drain_i>>
       ELSE
           /\ task_pc' = "drain_payloads"
           /\ drain_i' = 0
           /\ UNCHANGED <<signal_receiver, skipped_triggers>>
    /\ UNCHANGED <<downsample_power, payload_reciever, payload_closed, triggers_sent, fed>>
    /\ UNCHANGED <<offTask, ringVars>>
    /\ UNCHANGED warned

\* for _ in 0..(2 * payload_reciever.capacity()) { recv_timeout(..) }: a
\* payload received is thrown away, a timeout goes on with the next
\* iteration, a closed queue ends the task; after the loop, continue
TaskDrainPayloads ==
    /\ task_pc = "drain_payloads"
    /\ IF drain_i >= 2 * MaxDumpChan THEN
           /\ task_pc' = "loop"
           /\ UNCHANGED <<drain_i, payload_reciever>>
       ELSE IF payload_reciever # <<>> THEN
           /\ payload_reciever' = Tail(payload_reciever)
           /\ drain_i' = drain_i + 1
           /\ UNCHANGED task_pc
       ELSE IF payload_closed THEN
           /\ task_pc' = "done"
           /\ UNCHANGED <<drain_i, payload_reciever>>
       ELSE
           /\ drain_i' = drain_i + 1
           /\ UNCHANGED <<task_pc, payload_reciever>>
    /\ UNCHANGED <<downsample_power, signal_receiver, payload_closed, skipped_triggers,
                   triggers_sent, fed>>
    /\ UNCHANGED <<offTask, ringVars>>
    /\ UNCHANGED warned

\* trigger_task: sender.send(buf[..n].to_vec()) of a datagram received
TriggerTask ==
    /\ triggers_sent < MaxTriggers
    /\ Len(signal_receiver) < TRIG_CHAN
    /\ \E bytes \in TriggerDatagrams : signal_receiver' = Append(signal_receiver, bytes)
    /\ triggers_sent' = triggers_sent + 1
    /\ UNCHANGED <<task_pc, downsample_power, payload_reciever, payload_closed, drain_i,
                   skipped_triggers, fed>>
    /\ UNCHANGED <<offTask, ringVars>>
    /\ UNCHANGED warned

\* The task upstream sends the next payload into the payload queue; its
\* send blocks while the queue is full
PayloadFeed ==
    /\ fed < MaxFed
    /\ ~payload_closed
    /\ Len(payload_reciever) < MaxDumpChan
    /\ payload_reciever' = Append(payload_reciever, RingPayload(fed))
    /\ fed' = fed + 1
    /\ UNCHANGED <<task_pc, downsample_power, signal_receiver, payload_closed, drain_i,
                   skipped_triggers, triggers_sent>>
    /\ UNCHANGED <<offTask, ringVars>>
    /\ UNCHANGED warned

\* The task upstream ends and drops its sender
PayloadClose ==
    /\ ~payload_closed
    /\ payload_closed' = TRUE
    /\ UNCHANGED <<task_pc, downsample_power, signal_receiver, payload_reciever, drain_i,
                   skipped_triggers, triggers_sent, fed>>
    /\ UNCHANGED <<offTask, ringVars>>
    /\ UNCHANGED warned



\* The rings dump_task is started with: a new ring no larger than DUMP_SIZE,
\* and a full one larger than DUMP_SIZE
TaskRingInit ==
    /\ \/ \E size_power \in 0..MaxPower :
            /\ RingNew(size_power)
            /\ held = <<>>
            /\ run = NoRun
       \/ RingAfter(19, 0, 2 ^ 19)
    /\ overflow_checks \in BOOLEAN
    /\ call = NoCall
    /\ ret = "Ok"
    /\ file = NoFile

\* ---------------------------------------------------------------- inject
\* An i8 holds -128..127; the byte-wise add of AVX2 wraps
Wrap8(x) == ((x + 128) % 256) - 128

\* A polarization [Channel; 2048] seen as [i8; 4096]: the real part of
\* channel c, from 0, is byte 2c and its imaginary part byte 2c + 1.  The
\* model's sequences start at 1.
Re(pol, c) == pol[2 * c + 1]
Im(pol, c) == pol[2 * c + 2]

\* The bytes the model draws: byte c of pattern <<base, step>> is
\* base + step * c, wrapped into an i8
BytesOf(pat, c) == Wrap8(pat[1] + pat[2] * c)
PolOf(re_pat, im_pat) ==
    [i \in 1..(2 * CHANNELS) |->
        IF i % 2 = 1 THEN BytesOf(re_pat, (i - 1) \div 2) ELSE BytesOf(im_pat, (i - 1) \div 2)]
SampleOf(pat) == [i \in 1..CHANNELS |-> BytesOf(pat, i - 1)]

\* Faulty variant: the vector interleaved with the pulse bytes holds ones
Splat_Ones(v) == [i \in 1..32 |-> 1]

\* simd.splat_i8x32(v)
Splat(v) == [i \in 1..32 |-> v]

\* _mm256_castsi128_si256: the 16 bytes become the lower half of a 256-bit
\* vector, whose upper half is undefined
Cast256(src16, upper) == src16 \o upper

\* _mm256_unpacklo_epi8(a, b): in each 128-bit half, the lower 8 bytes of a
\* interleaved with the lower 8 bytes of b
UnpackLo(a, b) ==
    [i \in 1..32 |->
        LET half == (i - 1) \div 16
            j == ((i - 1) % 16) \div 2 IN
        IF i % 2 = 1 THEN a[16 * half + j + 1] ELSE b[16 * half + j + 1]]

\* _mm256_unpackhi_epi8(a, b): in each 128-bit half, the upper 8 bytes of a
\* interleaved with the upper 8 bytes of b
UnpackHi(a, b) ==
    [i \in 1..32 |->
        LET half == (i - 1) \div 16
            j == ((i - 1) % 16) \div 2 IN
        IF i % 2 = 1 THEN a[16 * half + 8 + j + 1] ELSE b[16 * half + 8 + j + 1]]

\* Faulty variant: control 0x31, the upper halves of a and b
Permute2x128_Upper(a, b) == SubSeq(a, 17, 32) \o SubSeq(b, 17, 32)

\* _mm256_permute2x128_si256::<0x20>(a, b): the lower half of a, then the
\* lower half of b
Permute2x128(a, b) == SubSeq(a, 1, 16) \o SubSeq(b, 1, 16)

\* _mm256_add_epi8: 32 byte-wise wrapping adds
AddEpi8(x, y) == [i \in 1..32 |-> Wrap8(x[i] + y[i])]

\* The body of the loop for one pair of chunks: 32 bytes of dst, 16 of src
InjectChunk(d, src16, upper) ==
    LET zeros == Splat(0)
        s == Cast256(src16, upper)
        res_lo == UnpackLo(s, zeros)
        res_hi == UnpackHi(s, zeros)
        interleaved == Permute2x128(res_lo, res_hi) IN
    AddEpi8(d, interleaved)

\* for (d, &s) in dst_chunks.iter_mut().zip(src_chunks): the chunks lo..hi-1
\* of dst after the loop.  No chunk reads what another wrote, so the range
\* is computed by halves.
RECURSIVE InjectChunks(_, _, _, _, _)
InjectChunks(live, injection, upper, lo, hi) ==
    IF hi = lo THEN <<>>
    ELSE IF hi = lo + 1 THEN
        InjectChunk(SubSeq(live, 32 * lo + 1, 32 * lo + 32),
                    SubSeq(injection, 16 * lo + 1, 16 * lo + 16), upper)
    ELSE LET mid == (lo + hi) \div 2 IN
         InjectChunks(live, injection, upper, lo, mid)
         \o InjectChunks(live, injection, upper, mid, hi)

\* simd_injection(live, injection) on a processor with V3: as_arrays cuts
\* dst into chunks of 32 bytes and src into chunks of 16
SimdInjection(live, injection, upper) ==
    InjectChunks(live, injection, upper, 0, Len(live) \div 32)

\* What the undefined upper half of the cast vector may hold
Uppers == {[i \in 1..16 |-> 0], [i \in 1..16 |-> 85]}

BytePayload(count, pol_a, pol_b) == [count |-> count, pol_a |-> pol_a, pol_b |-> pol_b]

\* inject(pl, sample): both polarizations get the pulse row
InjectOutcome(pl, sample, upper) ==
    BytePayload(pl.count, SimdInjection(pl.pol_a, sample, upper),
                SimdInjection(pl.pol_b, sample, upper))

\* The payloads and the pulse rows the model draws
SamplePatterns == {<<127, 0>>, <<-127, 0>>, <<-128, 0>>, <<2, 1>>, <<-2, -1>>}
Samples == {SampleOf(pat) : pat \in SamplePatterns}
BytePayloads ==
    {BytePayload(0, PolOf(<<0, 0>>, <<0, 0>>), PolOf(<<0, 0>>, <<0, 0>>)),
     BytePayload(7, PolOf(<<-3, 0>>, <<127, 0>>), PolOf(<<5, 37>>, <<-128, 3>>)),
     BytePayload(9, PolOf(<<1, 1>>, <<-1, 0>>), PolOf(<<0, 0>>, <<9, 5>>))}

\* inject is called at most MaxInject times on a payload
MaxInject == 2

\* No payload under injection
InjectIdle ==
    /\ v3 = TRUE
    /\ inj_pl = BytePayload(0, <<>>, <<>>)
    /\ inj_orig = inj_pl
    /\ inj_log = <<>>
    /\ inj_ret = "Ok"

\* A payload received by pulse_injection_task, before inject is called
InjectInit ==
    /\ v3 \in BOOLEAN
    /\ inj_pl \in BytePayloads
    /\ inj_orig = inj_pl
    /\ inj_log = <<>>
    /\ inj_ret = "Ok"

\* A call of inject; without V3 simd_injection panics before it writes
Inject ==
    /\ inj_ret = "Ok"
    /\ Len(inj_log) < MaxInject
    /\ \E sample \in Samples, upper \in Uppers :
         /\ inj_log' = Append(inj_log, sample)
         /\ IF v3 THEN
                /\ inj_pl' = InjectOutcome(inj_pl, sample, upper)
                /\ inj_ret' = "Ok"
            ELSE
                /\ inj_pl' = inj_pl
                /\ inj_ret' = "panic"
    /\ UNCHANGED <<v3, inj_orig>>
    /\ UNCHANGED offInject

\* ---------------------------------------------------------- the pipeline
\* start_pipeline without pulse injection (no pulse files): the FPGA sends
\* datagrams to the socket of capture, capture sends payloads on
\* CAPTURE_CHAN to downsample_task, which sends Stokes frames on the exfil
\* channel and payloads on DUMP_CHAN to dump_task.  processing.rs is not
\* among the sources: downsample_task is modelled from section 4.2 of the
\* specification.
\*
\* The model's ring has capacity 2^PipePower and the FPGA sends PipeCount
\* datagrams, twice the capacity; the channels hold MaxCapChan, MaxExChan
\* and MaxDumpChan entries and the socket buffer MaxSock datagrams.
PipePower == 2
PipeCount == 2 * 2 ^ PipePower
MaxCapChan == 1
MaxExChan == 1
MaxSock == 1

\* CAPTURE_CHAN as downsample_task sees it: what capture has sent and
\* downsample_task has not received.  The entries beyond the capacity of the
\* channel are the sends capture is blocked in.
CaptureBacklog == Len(payload_sender) - cap_taken
CaptureBlocked == CaptureBacklog > MaxCapChan

\* The exfil path is backed up to capture: the exfil channel is full and
\* capture is blocked in payload_sender.send
Backpressure == CaptureBlocked /\ Len(ex_chan) = MaxExChan

PipeInit ==
    /\ src_next = 0
    /\ sock = <<>>
    /\ lost_counts = {}
    /\ cap_taken = 0
    /\ ds_acc = <<>>
    /\ ex_chan = <<>>
    /\ exfil_out = <<>>

\* The FPGA sends the datagram of the next count.  The socket buffer takes
\* it if it has room; capture empties the buffer at line rate unless it is
\* held up by backpressure, and then the datagram is lost.
SourceSend ==
    /\ src_next < PipeCount
    /\ src_next' = src_next + 1
    /\ IF Len(sock) < MaxSock THEN
           /\ sock' = Append(sock, src_next)
           /\ UNCHANGED lost_counts
       ELSE
           /\ Backpressure
           /\ lost_counts' = lost_counts \cup {src_next}
           /\ UNCHANGED sock
    /\ UNCHANGED <<cap_taken, ds_acc, ex_chan, exfil_out>>
    /\ UNCHANGED <<capVars, ringVars, taskVars, injVars, workVars>>

\* In the runs of the pipeline the statistics interval has not elapsed when
\* a datagram is received, or the statistics channel is full
PipeTicks == {"none", "full"}

\* Capture::start receives the oldest datagram of the socket buffer, once
\* every send of the turn before has gone through
PipeRecv ==
    /\ cap_pc = "recv"
    /\ ~CaptureBlocked
    /\ sock # <<>>
    /\ \E tick \in PipeTicks : CaptureOne(PAYLOAD_SIZE, Head(sock), tick)
    /\ sock' = Tail(sock)
    /\ UNCHANGED shutdown
    /\ UNCHANGED <<src_next, lost_counts, cap_taken, ds_acc, ex_chan, exfil_out>>
    /\ UNCHANGED <<ringVars, taskVars, injVars, workVars>>

\* The Stokes frame of the payloads accumulated: their sum scaled, which the
\* model keeps as the first count and the data of each payload, in order
Frame(acc) == [first |-> acc[1].count, of |-> [i \in 1..Len(acc) |-> acc[i].data]]

\* What downsample_task sends to the ring queue for a payload: the payload
ToRing(pl) == <<[count |-> pl.count, data |-> pl.data]>>

\* downsample_task for one payload: add its Stokes vector to the
\* accumulator, forward the payload to the ring queue, and on every
\* 2^downsample_power-th payload send the frame to the exfil queue and zero
\* the accumulator.  Both sends block while their queue is full.
Downsample ==
    /\ cap_taken < Len(payload_sender)
    /\ Len(payload_reciever) < MaxDumpChan
    /\ LET pl == payload_sender[cap_taken + 1]
           acc == Append(ds_acc, pl)
           emits == Len(acc) = 2 ^ downsample_power IN
       /\ emits => Len(ex_chan) < MaxExChan
       /\ cap_taken' = cap_taken + 1
       /\ payload_reciever' = payload_reciever \o ToRing(pl)
       /\ IF emits THEN
              /\ ex_chan' = Append(ex_chan, Frame(acc))
              /\ ds_acc' = <<>>
          ELSE
              /\ ds_acc' = acc
              /\ UNCHANGED ex_chan
    /\ UNCHANGED <<src_next, sock, lost_counts, exfil_out>>
    /\ UNCHANGED <<task_pc, downsample_power, signal_receiver, payload_closed, drain_i,
                   skipped_triggers, warned, triggers_sent, fed>>
    /\ UNCHANGED <<capVars, ringVars, injVars, workVars>>

\* The exfil sink: while stokes_rcv.recv().is_some() {}
ExfilRecv ==
    /\ ex_chan # <<>>
    /\ exfil_out' = Append(exfil_out, Head(ex_chan))
    /\ ex_chan' = Tail(ex_chan)
    /\ UNCHANGED <<src_next, sock, lost_counts, cap_taken, ds_acc>>
    /\ UNCHANGED <<capVars, ringVars, taskVars, injVars, workVars>>

\* The ring start_pipeline builds, in a release build
PipeRingInit ==
    /\ RingNew(PipePower)
    /\ overflow_checks = FALSE
    /\ call = NoCall
    /\ ret = "Ok"
    /\ file = NoFile
    /\ held = <<>>
    /\ run = NoRun

\* ------------------------------------------------- the count, byte by byte
\* A u64 is kept as its eight bytes by significance, v[k] weighing 256^k.
\* Datagrams taken in a run of the byte-level model
MaxWire == 4

\* The u64 of the two low bytes b1, b0
U64(b1, b0) == [k \in 0..7 |-> IF k = 0 THEN b0 ELSE IF k = 1 THEN b1 ELSE 0]

\* v + 1 of a u64, wrapping
Succ64(v) ==
    [k \in 0..7 |-> IF \A j \in 0..(k - 1) : v[j] = 255 THEN (v[k] + 1) % 256 ELSE v[k]]

\* a < b of two u64
Lt64(a, b) == \E k \in 0..7 : a[k] < b[k] /\ \A j \in (k + 1)..7 : a[j] = b[j]

\* The eight bytes of a sequence number as the sender lays them out, the most
\* significant first
to_be_bytes(v) == [j \in 1..8 |-> v[8 - j]]

\* The value of eight bytes read most significant first
from_be_bytes(m) == [k \in 0..7 |-> m[8 - k]]

\* Payload.count of the receive buffer transmuted to Payload: the u64 field
\* at offset 0 of the repr(C) struct is read as the host lays a u64 out; the
\* crate builds for x86-64 only (pulp::x86::V3), which puts the least
\* significant byte first
PayloadCount(m) == [k \in 0..7 |-> m[k + 1]]

WireStart(seq) ==
    [seq |-> seq, datagram |-> <<>>, count |-> U64(0, 0), first_payload |-> TRUE,
     next_expected_count |-> U64(0, 0), verdict |-> "none", n |-> 0]

\* ------------------------------------------------- pulse_injection_task
\* Pulses have up to MaxPulseRows rows in the model and the task receives
\* MaxTaskPayloads payloads in a run
MaxPulseRows == 2
MaxTaskPayloads == 6

\* let (ir_s, ir_r) = std::sync::mpsc::sync_channel(5)
IR_CAP == 5

\* Injections::new: one pulse for each .dat file of the directory, in the
\* order read_dir yields them; a file of T x CHANNELS bytes gives T rows (a
\* file of no bytes gives a pulse without rows)
PulseFiles == <<"a.dat", "b.dat">>
InjectionSets ==
    UNION {{[k \in 1..n |-> [filename |-> PulseFiles[k], rows |-> r[k]]] :
               r \in [1..n -> 0..MaxPulseRows]} : n \in 1..Len(PulseFiles)}

\* The locals of pulse_injection_task before its loop: this_pulse is the
\* first of the cycle and current_pulse_length its number of rows
InjTaskStart(injs) ==
    [pc |-> "check", this_pulse |-> 1, i |-> 0, currently_injecting |-> FALSE,
     current_pulse_length |-> injs[1].rows, n |-> 0, restarted |-> FALSE]

\* pulse_cycle.next() of the cycle over injections.pulses
NextPulse == (inj_task.this_pulse % Len(injections)) + 1

\* -------------------------------------------------------------- stokes_i
\* An i16 and an i32 hold what their width allows; the vector arithmetic
\* wraps
WrapI16(x) == ((x + 32768) % 65536) - 32768
I32_MAX == 2147483647
WrapI32(x) ==
    IF x > I32_MAX THEN x - I32_MAX - I32_MAX - 2
    ELSE IF x < -I32_MAX - 1 THEN x + I32_MAX + I32_MAX + 2
    ELSE x

\* _mm256_cvtepi8_epi16: each of the 16 bytes sign-extended to an i16
CvtEpi8Epi16(x16) ==
    [i \in 1..16 |-> LET u == x16[i] % 256 IN IF u >= 128 THEN u - 256 ELSE u]

\* Faulty variant: the sum of each pair of products kept in 16 bits
MaddEpi16_Narrow(x, y) ==
    [k \in 1..8 |-> WrapI16(x[2 * k - 1] * y[2 * k - 1] + x[2 * k] * y[2 * k])]

\* _mm256_madd_epi16(x, y): the i16 lanes multiplied to i32, each pair of
\* adjacent products added into one i32 lane
MaddEpi16(x, y) ==
    [k \in 1..8 |-> WrapI32(x[2 * k - 1] * y[2 * k - 1] + x[2 * k] * y[2 * k])]

\* _mm256_add_epi32
AddEpi32(x, y) == [k \in 1..8 |-> WrapI32(x[k] + y[k])]

\* An f32 is held as m * 2^e with m odd, or as 0.  F32_MANT is the width of
\* its significand.
F32_MANT == 24
RECURSIVE F32Norm(_, _)
F32Norm(m, e) ==
    IF m = 0 THEN [m |-> 0, e |-> 0]
    ELSE IF m % 2 = 0 THEN F32Norm(m \div 2, e + 1)
    ELSE [m |-> m, e |-> e]

\* _mm256_cvtepi32_ps: the nearest f32, ties to even; an i32 of magnitude
\* below 2^24 is kept exactly
RECURSIVE F32Round(_, _)
F32Round(m, e) ==
    IF m < 2 ^ F32_MANT /\ m > -(2 ^ F32_MANT) THEN F32Norm(m, e)
    ELSE LET q == IF m >= 0 THEN m \div 2 ELSE -((-m) \div 2)
             odd == m % 2 = 1
             up == odd /\ (q % 2 = 1) IN
         F32Round(IF up THEN (IF m >= 0 THEN q + 1 ELSE q - 1) ELSE q, e + 1)
CvtEpi32Ps(x) == [k \in 1..8 |-> F32Round(x[k], 0)]

\* let scale = cast([16384f32; 8]); _mm256_div_ps(floats, scale): 16384 is
\* 2^14 and the quotient is exact
SCALE_LOG2 == 14
DivPs(x) == [k \in 1..8 |-> IF x[k].m = 0 THEN x[k] ELSE [x[k] EXCEPT !.e = @ - SCALE_LOG2]]

\* The integer Stokes I of the 8 channels of one pair of chunks
StokesLanes(a_chunk, b_chunk) ==
    LET a_ext == CvtEpi8Epi16(a_chunk)
        b_ext == CvtEpi8Epi16(b_chunk)
        mag_a == MaddEpi16(a_ext, a_ext)
        mag_b == MaddEpi16(b_ext, b_ext) IN
    AddEpi32(mag_a, mag_b)

\* The body of the loop for one pair of chunks: 16 bytes of a and of b give
\* 8 floats of dst
StokesChunk(a_chunk, b_chunk) == DivPs(CvtEpi32Ps(StokesLanes(a_chunk, b_chunk)))

\* for ((d, &a_chunk), &b_chunk) in dst_chunks.iter_mut().zip(a_chunks)
\* .zip(b_chunks): the chunks lo..hi-1 of dst after the loop
RECURSIVE StokesChunks(_, _, _, _)
StokesChunks(a, b, lo, hi) ==
    IF hi = lo THEN <<>>
    ELSE IF hi = lo + 1 THEN
        StokesChunk(SubSeq(a, 16 * lo + 1, 16 * lo + 16),
                    SubSeq(b, 16 * lo + 1, 16 * lo + 16))
    ELSE LET mid == (lo + hi) \div 2 IN
         StokesChunks(a, b, lo, mid) \o StokesChunks(a, b, mid, hi)

\* simd_stokes(dst, a, b) on a processor with V3
simd_stokes(a, b) == StokesChunks(a, b, 0, Len(a) \div 16)

\* The polarizations the model draws: each part of each polarization
\* follows one of these patterns over the channels
StokesPatterns == {<<-128, 0>>, <<127, 0>>, <<0, 1>>, <<-3, 7>>}

\* No payload given to stokes_i
StokesIdle == [a |-> <<>>, b |-> <<>>, dst |-> <<>>, ret |-> "Ok"]

\* A payload about to be given to stokes_i
StokesStart ==
    \E a_re \in StokesPatterns, a_im \in StokesPatterns,
       b_re \in StokesPatterns, b_im \in StokesPatterns :
        stokes = [a |-> PolOf(a_re, a_im), b |-> PolOf(b_re, b_im), dst |-> <<>>,
                  ret |-> "Ok"]

\* stokes_i(out, pl); without V3 simd_stokes panics before it writes
StokesI ==
    /\ stokes.dst = <<>>
    /\ stokes.ret = "Ok"
    /\ stokes.a # <<>>
    /\ stokes' = IF v3 THEN [stokes EXCEPT !.dst = simd_stokes(stokes.a, stokes.b)]
                 ELSE [stokes EXCEPT !.ret = "panic"]
    /\ UNCHANGED <<capVars, ringVars, taskVars, injVars, pipeVars, injections, inj_task,
                   output, injection_record_sender, injection_events, wire, exfil,
                   threads, sup, boot>>

\* ------------------------------------------------- start_pipeline and T0
\* Epochs are counted in units of PACKET_CADENCE from an arbitrary origin;
\* the trigger may return any of 0..MaxEpoch. A run makes up to MaxT0Reads
\* calls of payload_time, for counts in 0..MaxT0Count
MaxEpoch == 1
MaxT0Reads == 2
MaxT0Count == 2

\* The threads and tasks that call payload_time or
\* processed_payload_start_time
T0Readers == {"injection", "dump", "exfil", "web"}

\* start_pipeline entered: PACKET_START_TIME.get_or_init(|| ... None)
BootStart ==
    [pc |-> "setup", packet_start |-> None, T0 |-> None, workers |-> {},
     reads |-> <<>>]

\* start_pipeline returned the handles for a trigger at epoch 0
Booted ==
    [pc |-> "running", packet_start |-> Some(0), T0 |-> Some(0),
     workers |-> T0Readers, reads |-> <<>>]

\* What a step of start_pipeline or a call of payload_time leaves as it is
offBoot ==
    <<capVars, ringVars, taskVars, injVars, pipeVars, injections, inj_task, output,
      injection_record_sender, injection_events, wire, exfil, threads, sup, stokes>>

\* device.reset()?; device.start_networking(..)?; packet_start =
\* device.trigger(..)? or device.blind_trigger()?: any of them may fail and
\* start_pipeline returns the error, else the trigger gives an epoch
BootFpga ==
    /\ boot.pc = "setup"
    /\ \/ boot' = [boot EXCEPT !.pc = "failed"]
       \/ \E e \in 0..MaxEpoch :
              boot' = [boot EXCEPT !.pc = "triggered", !.packet_start = Some(e)]
    /\ UNCHANGED offBoot

\* let mut ps = payload_start_time().lock().unwrap(); *ps = Some(packet_start)
BootSetT0 ==
    /\ boot.pc = "triggered"
    /\ boot' = [boot EXCEPT !.pc = "gains", !.T0 = Some(Unwrap(boot.packet_start))]
    /\ UNCHANGED offBoot

\* device.force_pps()? if cli.trig; device.set_requant_gains(..)?
BootGains ==
    /\ boot.pc = "gains"
    /\ \E ok \in BOOLEAN :
           boot' = [boot EXCEPT !.pc = IF ok THEN "spawn" ELSE "failed"]
    /\ UNCHANGED offBoot

\* thread_spawn! and the tokio::spawn of the web server and the trigger task
BootSpawn_Early ==
    /\ boot.pc \in {"triggered", "spawn"}
    /\ boot' = [boot EXCEPT !.pc = "running", !.workers = T0Readers]
    /\ UNCHANGED offBoot

BootSpawn ==
    /\ boot.pc = "spawn"
    /\ boot' = [boot EXCEPT !.pc = "running", !.workers = T0Readers]
    /\ UNCHANGED offBoot

\* payload_time(count): payload_start_time().lock().unwrap().unwrap() +
\* count * PACKET_CADENCE; the second unwrap panics on None
payload_time(count) ==
    IF boot.T0 = None THEN None ELSE Some(Unwrap(boot.T0) + count)

\* A spawned thread or task calls payload_time
WorkerReadT0 ==
    /\ Len(boot.reads) < MaxT0Reads
    /\ \E w \in boot.workers, count \in 0..MaxT0Count :
           boot' = [boot EXCEPT !.reads =
                        Append(@, [by |-> w, count |-> count,
                                   time |-> payload_time(count)])]
    /\ UNCHANGED offBoot

\* downsample_task has returned and dropped the receiver of output
OutputClosed == threads["downsample"] # "run"

\* The task, the threads and main before anything ran
WorkIdle ==
    /\ injections = <<[filename |-> PulseFiles[1], rows |-> 1]>>
    /\ inj_task = InjTaskStart(injections)
    /\ output = <<>>
    /\ injection_record_sender = <<>>
    /\ injection_events = <<>>
    /\ wire = WireStart(U64(0, 0))
    /\ exfil = [consumer |-> "dummy", pc |-> "check"]
    /\ threads = [t \in {"collect", "downsample", "web", "trigger"} |-> "run"]
    /\ sup = [pc |-> "await", joined |-> 0, result |-> "none"]
    /\ boot = Booted
    /\ stokes = StokesIdle

\* pulse_injection_task started on any of the modelled sets of pulses
InjTaskInit ==
    /\ injections \in InjectionSets
    /\ inj_task = InjTaskStart(injections)
    /\ output = <<>>
    /\ injection_record_sender = <<>>
    /\ injection_events = <<>>
    /\ wire = WireStart(U64(0, 0))
    /\ exfil = [consumer |-> "dummy", pc |-> "check"]
    /\ threads = [t \in {"collect", "downsample", "web", "trigger"} |-> "run"]
    /\ sup = [pc |-> "await", joined |-> 0, result |-> "none"]
    /\ boot = Booted
    /\ stokes = StokesIdle

\* Top of the loop: if shutdown.try_recv().is_ok() { break }
InjTaskCheck ==
    /\ inj_task.pc = "check"
    /\ inj_task' = [inj_task EXCEPT !.pc = IF shutdown THEN "done" ELSE "recv"]
    /\ UNCHANGED <<injections, output, injection_record_sender, injection_events, wire,
                   exfil, threads, sup, boot, stokes>>
    /\ UNCHANGED <<capVars, ringVars, taskVars, injVars, pipeVars>>

\* The arm Ok(mut payload) of the loop, for a payload of the given count.
\* elapsed is what last_injection.elapsed() >= cadence
\* gives: the test is made for every payload, an injection running or not,
\* and when it holds the injection is started over with this_pulse and a
\* record is sent.  The row i of this_pulse is then sliced, which panics
\* when the pulse has no row i, and added by inject; i is compared with
\* current_pulse_length, the row count of the first pulse loaded.
\* output.send fails when the receiver is gone and the task returns the
\* error.  The mjd of the record is left out.  The record goes into the
\* channel, which has room when this is evaluated.
InjTaskHandle(count, elapsed) ==
    LET t == inj_task
        started == IF elapsed
                   THEN [t EXCEPT !.currently_injecting = TRUE, !.i = 0,
                                  !.restarted = t.restarted \/ t.currently_injecting]
                   ELSE t
        pulse == injections[t.this_pulse]
        record == [sample |-> count - FIRST_PACKET, filename |-> pulse.filename]
        pulse_done == started.i + 1 = t.current_pulse_length
        injected == [started EXCEPT !.i = started.i + 1,
                                    !.currently_injecting = ~pulse_done,
                                    !.this_pulse = IF pulse_done THEN NextPulse ELSE @]
        after == IF started.currently_injecting THEN injected ELSE started
        payload == [count |-> count,
                    added |-> IF started.currently_injecting
                              THEN <<t.this_pulse, started.i>> ELSE <<>>] IN
    /\ injection_record_sender' =
           IF elapsed THEN Append(injection_record_sender, record)
           ELSE injection_record_sender
    /\ injection_events' =
           IF elapsed THEN Append(injection_events, record) ELSE injection_events
    /\ IF started.currently_injecting /\ started.i >= pulse.rows THEN
           /\ inj_task' = [started EXCEPT !.pc = "panic", !.n = t.n + 1]
           /\ UNCHANGED output
       ELSE IF OutputClosed THEN
           /\ inj_task' = [after EXCEPT !.pc = "err", !.n = t.n + 1]
           /\ UNCHANGED output
       ELSE
           /\ inj_task' = [after EXCEPT !.pc = "check", !.n = t.n + 1]
           /\ output' = Append(output, payload)

\* The arm Ok(mut payload) up to the send of the record:
\* injection_record_sender.send(record) of a SyncSender waits while the
\* channel holds IR_CAP records, the payload in hand; otherwise the turn
\* runs to its end
InjTaskPayload(count, elapsed) ==
    IF elapsed /\ Len(injection_events) >= IR_CAP THEN
        /\ inj_task' = [inj_task EXCEPT !.pc = "send"]
        /\ UNCHANGED <<output, injection_record_sender, injection_events>>
    ELSE InjTaskHandle(count, elapsed)

\* input.recv_timeout(BLOCK_TIMEOUT): a payload (at most max of them in a
\* run, with the consecutive counts capture forwards from FIRST_PACKET on), a
\* timeout or a closed queue
InjTaskRecvUpTo(max) ==
    /\ inj_task.pc = "recv"
    /\ \/ /\ inj_task.n < max
          /\ \E elapsed \in BOOLEAN : InjTaskPayload(FIRST_PACKET + inj_task.n, elapsed)
       \/ /\ inj_task' = [inj_task EXCEPT !.pc = "check"]
          /\ UNCHANGED <<output, injection_record_sender, injection_events>>
       \/ /\ inj_task' = [inj_task EXCEPT !.pc = "done"]
          /\ UNCHANGED <<output, injection_record_sender, injection_events>>
    /\ UNCHANGED <<injections, wire, exfil, threads, sup, boot, stokes>>
    /\ UNCHANGED <<capVars, ringVars, taskVars, injVars, pipeVars>>

InjTaskRecv == InjTaskRecvUpTo(MaxTaskPayloads)

\* The send of the record returns once db_task has made room, and the turn
\* runs to its end
InjTaskSend ==
    /\ inj_task.pc = "send"
    /\ Len(injection_events) < IR_CAP
    /\ InjTaskHandle(FIRST_PACKET + inj_task.n, TRUE)
    /\ UNCHANGED <<injections, wire, exfil, threads, sup, boot, stokes>>
    /\ UNCHANGED <<capVars, ringVars, taskVars, injVars, pipeVars>>

\* db_task: injection_events.recv() takes the oldest record of the channel
DbRecv ==
    /\ injection_events # <<>>
    /\ injection_events' = Tail(injection_events)
    /\ UNCHANGED <<injections, inj_task, output, injection_record_sender, wire, exfil,
                   threads, sup, boot, stokes>>
    /\ UNCHANGED <<capVars, ringVars, taskVars, injVars, pipeVars>>

\* ------------------------------------ the first payload, statement by statement
\* Capture::start on the first datagram, up to payload_sender.send: the
\* payload is in the channel, FIRST_PACKET is not yet written
CaptureFirstSend ==
    /\ cap_pc = "recv"
    /\ first_payload
    /\ \E c \in Counts :
          LET pl == [count |-> c, data |-> DatagramData(Len(received) + 1)] IN
          /\ received' = Append(received, pl)
          /\ payload_sender' = Append(payload_sender, Real(pl))
    /\ datagram_len' = PAYLOAD_SIZE
    /\ processed' = processed + 1
    /\ first_payload' = FALSE
    /\ cap_pc' = "swap"
    /\ UNCHANGED <<shutdown, FIRST_PACKET, next_expected_count, drops, shuffled, stats_send>>
    /\ UNCHANGED offCapture

\* FIRST_PACKET.swap(payload.count, ..) and next_expected_count, the two
\* statements after the send
CaptureFirstSwap ==
    /\ cap_pc = "swap"
    /\ FIRST_PACKET' = received[1].count
    /\ next_expected_count' = received[1].count + 1
    /\ cap_pc' = "check"
    /\ UNCHANGED <<shutdown, datagram_len, first_payload, drops, shuffled, processed,
                   payload_sender, stats_send, received>>
    /\ UNCHANGED offCapture

\* Capture::start on a datagram after the first
CaptureLater == ~first_payload /\ CaptureRecv

\* pulse_injection_task receives the payload at the head of the channel of
\* capture
InjTaskRecvSent ==
    /\ inj_task.pc = "recv"
    /\ payload_sender # <<>>
    /\ \E elapsed \in BOOLEAN : InjTaskPayload(Head(payload_sender).count, elapsed)
    /\ payload_sender' = Tail(payload_sender)
    /\ UNCHANGED <<injections, wire, exfil, threads, sup, boot, stokes>>
    /\ UNCHANGED <<shutdown, cap_pc, datagram_len, first_payload, next_expected_count,
                   drops, shuffled, processed, FIRST_PACKET, stats_send, received>>
    /\ UNCHANGED <<ringVars, taskVars, injVars, pipeVars>>

\* ---------------------------------------------- the count: the capture loop
\* The sender starts at any of these sequence numbers
WireInit ==
    /\ \E b1 \in {0, 1, 255} : \E b0 \in {0, 1, 2, 254, 255} : wire = WireStart(U64(b1, b0))
    /\ injections = <<[filename |-> PulseFiles[1], rows |-> 1]>>
    /\ inj_task = InjTaskStart(injections)
    /\ output = <<>>
    /\ injection_record_sender = <<>>
    /\ injection_events = <<>>
    /\ exfil = [consumer |-> "dummy", pc |-> "check"]
    /\ threads = [t \in {"collect", "downsample", "web", "trigger"} |-> "run"]
    /\ sup = [pc |-> "await", joined |-> 0, result |-> "none"]
    /\ boot = Booted
    /\ stokes = StokesIdle

\* One turn of the loop of Capture::start on the next datagram of the sender,
\* or on the one after it when lost is set: the buffer is transmuted to a
\* Payload and its count goes through the ordering tests
WireCapture(lost) ==
    LET sent == IF lost THEN Succ64(wire.seq) ELSE wire.seq
        m == to_be_bytes(sent)
        count == PayloadCount(m)
        branch == IF wire.first_payload THEN "first"
                  ELSE IF count = wire.next_expected_count THEN "expected"
                  ELSE IF Lt64(count, wire.next_expected_count) THEN "past"
                  ELSE "gap" IN
    /\ wire.n < MaxWire
    /\ wire' = [seq |-> Succ64(sent), datagram |-> m, count |-> count,
                first_payload |-> FALSE,
                next_expected_count |-> IF branch = "past" THEN wire.next_expected_count
                                        ELSE Succ64(count),
                verdict |-> branch, n |-> wire.n + 1]
    /\ UNCHANGED <<injections, inj_task, output, injection_record_sender,
                   injection_events, exfil, threads, sup, boot, stokes>>
    /\ UNCHANGED <<capVars, ringVars, taskVars, injVars, pipeVars>>

\* ------------------------------------------- shutdown and the supervisor
\* Datagrams capture takes, and payloads the injection task receives, in a
\* run of the supervisor model
MaxSupRecv == 1
MaxSupPayloads == 3

\* The threads of thread_spawn!, in the order main joins their handles
Handles == <<"collect", "injection", "downsample", "dump", "exfil", "capture">>

\* What handle.join().unwrap() of a thread gives: "run" while the thread has
\* not returned
HandleResult(h) ==
    CASE h = "injection" -> (CASE inj_task.pc = "done" -> "Ok"
                               [] inj_task.pc = "err" -> "Err"
                               [] inj_task.pc = "panic" -> "panic"
                               [] OTHER -> "run")
      [] h = "dump" -> (CASE task_pc = "done" -> "Ok"
                          [] task_pc = "panic" -> "panic"
                          [] OTHER -> "run")
      [] h = "exfil" -> (CASE exfil.pc = "done" -> "Ok"
                           [] exfil.pc = "err" -> "Err"
                           [] OTHER -> "run")
      [] h = "capture" -> (CASE cap_pc = "done" -> "Ok"
                             [] cap_pc = "err" -> "Err"
                             [] OTHER -> "run")
      [] OTHER -> threads[h]

\* The consumer at its start: the dada consumer first takes a block of the
\* PSRDADA buffer, the others enter their loop
ConsumerStart(c) == [consumer |-> c, pc |-> IF c = "dada" THEN "block" ELSE "check"]

\* The exfil thread started with any of the consumers, one pulse loaded
ShutdownInit ==
    /\ \E T \in 1..MaxPulseRows : injections = <<[filename |-> PulseFiles[1], rows |-> T]>>
    /\ inj_task = InjTaskStart(injections)
    /\ output = <<>>
    /\ injection_record_sender = <<>>
    /\ injection_events = <<>>
    /\ wire = WireStart(U64(0, 0))
    /\ \E c \in {"dummy", "filterbank", "dada"} : exfil = ConsumerStart(c)
    /\ threads = [t \in {"collect", "downsample", "web", "trigger"} |-> "run"]
    /\ sup = [pc |-> "await", joined |-> 0, result |-> "none"]
    /\ boot = Booted
    /\ stokes = StokesIdle

\* The frame of the steps that touch threads, exfil or sup only
OffWork ==
    /\ UNCHANGED <<injections, inj_task, output, injection_record_sender,
                   injection_events, wire>>
    /\ UNCHANGED <<capVars, ringVars, injVars, pipeVars>>

\* dada consumer: data_writer.next().unwrap() gives the next block of the
\* PSRDADA buffer to write to; the buffer is taken to have a free block
ConsumerBlock ==
    /\ exfil.pc = "block"
    /\ exfil' = [exfil EXCEPT !.pc = "check"]
    /\ UNCHANGED <<threads, sup, boot, stokes, taskVars>>
    /\ OffWork

\* consumer of exfil/dummy.rs, exfil/filterbank.rs and exfil/dada.rs, top of
\* the (inner) loop: if shutdown.try_recv().is_ok() the consumer returns Ok
ConsumerCheck ==
    /\ exfil.pc = "check"
    /\ exfil' = [exfil EXCEPT !.pc = IF shutdown THEN "done" ELSE "recv"]
    /\ UNCHANGED <<threads, sup, boot, stokes, taskVars>>
    /\ OffWork

\* dummy and filterbank consumer: stokes_rcv.recv_ref_timeout(BLOCK_TIMEOUT)
\* returns Timeout when no frame came for BLOCK_TIMEOUT and the loop starts
\* over.  The dada consumer calls recv_ref(), which has no timeout.
ConsumerTimeout ==
    /\ exfil.pc = "recv"
    /\ exfil.consumer # "dada"
    /\ exfil' = [exfil EXCEPT !.pc = "check"]
    /\ UNCHANGED <<threads, sup, boot, stokes, taskVars>>
    /\ OffWork

\* The receive returns a frame, which downsample sends while it runs, or
\* finds the queue closed (the downsample thread has returned).  After a
\* frame the loop starts over; the dada consumer, when the frame fills the
\* window, commits the block and takes the next one.  The writes of the
\* filterbank and the dada consumer are taken to succeed.  On a closed queue
\* the dummy and the filterbank consumer break and return Ok, the dada
\* consumer returns the error "Channel closed".
ConsumerRecv ==
    /\ exfil.pc = "recv"
    /\ \/ /\ threads["downsample"] = "run"
          /\ \E window_full \in BOOLEAN :
                exfil' = [exfil EXCEPT !.pc = IF exfil.consumer = "dada" /\ window_full
                                               THEN "block" ELSE "check"]
       \/ /\ threads["downsample"] # "run"
          /\ exfil' = [exfil EXCEPT !.pc = IF exfil.consumer = "dada" THEN "err"
                                           ELSE "done"]
    /\ UNCHANGED <<threads, sup, boot, stokes, taskVars>>
    /\ OffWork

\* downsample_task returns once it has seen the shutdown or its input closed
\* (the injection thread has returned); its senders and the receiver of the
\* injection output are dropped with it
DownsampleStop ==
    /\ threads["downsample"] = "run"
    /\ shutdown \/ inj_task.pc \in {"done", "err", "panic"}
    /\ threads' = [threads EXCEPT !["downsample"] = "Ok"]
    /\ payload_closed' = TRUE
    /\ UNCHANGED <<task_pc, downsample_power, signal_receiver, payload_reciever, drain_i,
                   skipped_triggers, triggers_sent, fed, warned>>
    /\ UNCHANGED <<exfil, sup, boot, stokes>>
    /\ OffWork

\* monitor_task returns once it has seen the shutdown or found the stats
\* channel disconnected (capture has returned)
CollectStop ==
    /\ threads["collect"] = "run"
    /\ shutdown \/ cap_pc \in {"done", "err"}
    /\ threads' = [threads EXCEPT !["collect"] = "Ok"]
    /\ UNCHANGED <<exfil, sup, boot, stokes, taskVars>>
    /\ OffWork

\* trigger_task: the shutdown arm of its select! returns Ok; a trigger
\* datagram that arrives when dump_task has returned makes sender.send fail
\* and the task return the error
TriggerTaskStop ==
    /\ threads["trigger"] = "run"
    /\ \/ /\ shutdown
          /\ threads' = [threads EXCEPT !["trigger"] = "Ok"]
       \/ /\ task_pc \in {"done", "panic"}
          /\ threads' = [threads EXCEPT !["trigger"] = "Err"]
    /\ UNCHANGED <<exfil, sup, boot, stokes, taskVars>>
    /\ OffWork

\* The web server stops on the signal that also raises the shutdown
WebStop ==
    /\ threads["web"] = "run"
    /\ shutdown
    /\ threads' = [threads EXCEPT !["web"] = "Ok"]
    /\ UNCHANGED <<exfil, sup, boot, stokes, taskVars>>
    /\ OffWork

\* pulse_injection_task receives up to MaxSupPayloads payloads
SupInjTaskRecv == InjTaskRecvUpTo(MaxSupPayloads)

\* Capture::start takes a datagram of any of the modelled lengths
SupCaptureRecv ==
    /\ cap_pc = "recv"
    /\ Len(received) < MaxSupRecv
    /\ \E len \in DatagramLens : CaptureOne(len, Len(received), "none")
    /\ UNCHANGED shutdown
    /\ UNCHANGED offCapture

\* main: try_join!(web server, trigger_task) completes when both tasks have
\* ended; what trigger_task returned is dropped (the ? sees the JoinError of
\* a task only)
SupTryJoin ==
    /\ sup.pc = "await"
    /\ threads["web"] # "run"
    /\ threads["trigger"] # "run"
    /\ sup' = [sup EXCEPT !.pc = "join"]
    /\ UNCHANGED <<exfil, threads, boot, stokes, taskVars>>
    /\ OffWork

\* main: handle.join().unwrap()? of the next handle, once its thread has
\* returned: an error is returned from main, a panic of the thread panics
\* main, and after the last handle main returns Ok
SupJoin ==
    /\ sup.pc = "join"
    /\ LET r == HandleResult(Handles[sup.joined + 1]) IN
       /\ r # "run"
       /\ sup' = IF r = "Ok"
                 THEN [pc |-> IF sup.joined + 1 = Len(Handles) THEN "exit" ELSE "join",
                       joined |-> sup.joined + 1,
                       result |-> IF sup.joined + 1 = Len(Handles) THEN "Ok" ELSE "none"]
                 ELSE [sup EXCEPT !.pc = "exit", !.result = r]
    /\ UNCHANGED <<exfil, threads, boot, stokes, taskVars>>
    /\ OffWork

\* A step of any thread or task, or of main
ThreadStep ==
    \/ CaptureCheck
    \/ SupCaptureRecv
    \/ InjTaskCheck
    \/ SupInjTaskRecv
    \/ DownsampleStop
    \/ TaskStop
    \/ TaskPoll
    \/ TaskReceive
    \/ ConsumerBlock
    \/ ConsumerCheck
    \/ ConsumerTimeout
    \/ ConsumerRecv
    \/ CollectStop
    \/ TriggerTaskStop
    \/ WebStop
    \/ SupTryJoin
    \/ SupJoin

\* ------------------------------- shutdown and the supervisor: properties
\* C21: after the shutdown broadcast the injection task, the dump task (it is
\* never inside a dump or a drain here), and the exfil consumer, dummy or
\* filterbank, observe it and return Ok: none of them has returned with
\* anything but Ok, and once no thread can take a step all of them have
\* returned
C21_Claim ==
    (shutdown /\ exfil.consumer \in {"dummy", "filterbank"}) =>
        \A h \in {"injection", "dump", "exfil"} :
            /\ HandleResult(h) \in {"run", "Ok"}
            /\ ~ENABLED ThreadStep => HandleResult(h) = "Ok"

\* The receive of the injection task, or of the dump task, finds the input
\* queue closed in this step: the task leaves its loop with no payload taken
InjectionInputClosed ==
    /\ inj_task.pc = "recv"
    /\ inj_task'.n = inj_task.n
    /\ inj_task'.pc \notin {"recv", "check", "send"}
DumpInputClosed == task_pc = "recv" /\ task_pc' \notin {"recv", "loop"}

\* C36: a worker whose input queue is found closed ends with an error, not
\* with success; so the injection task and the dump task
C36_Claim ==
    [][/\ InjectionInputClosed => inj_task'.pc = "err"
       /\ DumpInputClosed => task_pc' = "err"]_vars

\* C34: the exfil sink, whichever consumer was chosen, waits on its input
\* queue for the timeout at most before it tests the shutdown again, so
\* after the broadcast it ends even if no frame arrives any more: a wait can
\* always end through the timeout, and after the broadcast the sink returns
\* Ok, no frame needed
C34_Claim ==
    /\ exfil.pc = "recv" => ENABLED ConsumerTimeout
    /\ shutdown => HandleResult("exfil") \in {"run", "Ok"}

\* C22: when a worker thread has returned an error (capture its
\* SizeMismatch), the supervisor broadcasts the shutdown and joins the
\* threads, so the process ends with that error without a signal from
\* outside: once nothing but a signal can still happen, main has returned
\* the error
C22_Claim ==
    (cap_pc = "err" /\ ~ENABLED ThreadStep) => (sup.pc = "exit" /\ sup.result = "Err")

\* --------------------------------------- the count byte by byte: properties
\* The datagram taken in this step carries the sequence number that follows
\* the one of the datagram taken before it
ConsecutiveSent ==
    /\ wire' # wire
    /\ wire.datagram # <<>>
    /\ from_be_bytes(wire'.datagram) = Succ64(from_be_bytes(wire.datagram))

\* C25: the count of a payload is the first 8 bytes of the datagram read as a
\* big-endian u64, so datagrams sent with consecutive big-endian sequence
\* numbers are taken as consecutive counts by the gap detection
C25_Claim ==
    [][/\ wire' # wire => wire'.count = from_be_bytes(wire'.datagram)
       /\ ConsecutiveSent => wire'.verdict = "expected"]_vars

\* ------------------------------------- pulse_injection_task: properties
\* An injection was started by the payload of sample s
Started(s) ==
    \E k \in 1..Len(injection_record_sender) : injection_record_sender[k].sample = s

\* The injection started by the payload of sample s adds row j of its pulse
\* to the j-th payload after s for each of the T rows of that pulse, leaves
\* the next payload alone unless that one starts an injection, and the task
\* is idle once the T payloads are out
InjectionWhole(s) ==
    LET p == output[s + 1].added[1]
        T == injections[p].rows IN
    /\ \A j \in 0..(T - 1) : s + j < Len(output) => output[s + j + 1].added = <<p, j>>
    /\ (s + T < Len(output) /\ ~Started(s + T)) => output[s + T + 1].added = <<>>
    /\ (s + T = Len(output) /\ inj_task.pc = "check") => ~inj_task.currently_injecting

\* C29: an injection of a pulse with T rows modifies exactly T consecutive
\* payloads, adding row i of that pulse to the i-th payload after the one that
\* started it, and then the task is idle again; T is the row count of the pulse
\* injected, also when the pulses loaded differ in their row counts.  Stated
\* for the runs in which every pulse has a row and no injection was started
\* over by the cadence.
C29_Claim ==
    (/\ ~inj_task.restarted
     /\ \A p \in 1..Len(injections) : injections[p].rows >= 1)
    => /\ inj_task.pc # "panic"
       /\ \A s \in 0..(Len(output) - 1) : Started(s) => InjectionWhole(s)

\* C30: with N pulses loaded the k-th injection (k = 0, 1, ...) uses the pulse
\* k mod N in load order: the k-th record sent carries the filename of that
\* pulse and the payload that started the injection got a row of that pulse
C30_Claim ==
    \A k \in 1..Len(injection_record_sender) :
        LET p == ((k - 1) % Len(injections)) + 1
            s == injection_record_sender[k].sample IN
        /\ injection_record_sender[k].filename = injections[p].filename
        /\ s < Len(output) => output[s + 1].added = <<p, 0>>

\* The task handles a payload in this step
HandlesPayload == inj_task'.n = inj_task.n + 1

\* C31: the cadence is tested in the Idle state only: while an injection is
\* running, a payload starts no new injection, i is not set back to 0 and no
\* further InjectionRecord is sent, whatever the cadence
C31_Claim ==
    [][(HandlesPayload /\ inj_task.currently_injecting) =>
           /\ injection_record_sender' = injection_record_sender
           /\ inj_task'.restarted = inj_task.restarted
           /\ inj_task'.pc = "check" => inj_task'.i = inj_task.i + 1]_vars

\* C32: sending an InjectionRecord never makes the injection task wait: when
\* the record channel is full, db_task not consuming, the record is dropped
\* and the payload is injected and forwarded in the same turn
C32_Claim ==
    [][/\ inj_task'.pc # "send"
       /\ (HandlesPayload /\ Len(injection_events) = IR_CAP) =>
              /\ injection_events' = injection_events
              /\ Len(output') = Len(output) + 1]_vars

\* C37: whenever the injection task reads FIRST_PACKET while it handles a
\* payload it received, it reads the count of the first payload capture
\* forwarded: the count is published before that payload can be seen
\* downstream, and the sample of a record is the offset from it
C37_Claim ==
    [][HandlesPayload =>
           /\ FIRST_PACKET = received[1].count
           /\ \A k \in 1..Len(injection_record_sender') :
                  k > Len(injection_record_sender) =>
                      injection_record_sender'[k].sample =
                          output'[Len(output')].count - received[1].count]_vars

\* C33: the injection task forwards every payload it receives exactly once,
\* in the order received and with its count unchanged, a pulse row added or
\* not: the payloads handled so far are the payloads sent, and their counts
\* are the consecutive counts that came in.  Stated for the runs in which
\* every pulse has a row.
C33_Claim ==
    (\A p \in 1..Len(injections) : injections[p].rows >= 1) =>
        /\ Len(output) = inj_task.n
        /\ \A k \in 1..Len(output) : output[k].count = FIRST_PACKET + k - 1

\* ------------------------------------------------ start_pipeline properties
\* The value the call of payload_time added last to boot.reads
LastT0Read == boot'.reads[Len(boot'.reads)]

\* C39: T0 is written once, in the step after the FPGA was triggered and
\* while no worker is spawned, to the epoch the trigger returned; no other
\* step writes it; once a worker is spawned T0 is set, and every call of
\* payload_time by a worker finds it set and returns T0 advanced by the count
C39_Claim ==
    [][/\ boot'.T0 # boot.T0 =>
              /\ boot.pc = "triggered"
              /\ boot.T0 = None
              /\ boot.workers = {}
              /\ boot'.workers = {}
              /\ boot'.T0 = boot.packet_start
              /\ boot'.T0 # None
       /\ boot'.workers # {} => boot'.T0 # None
       /\ boot'.reads # boot.reads =>
              /\ boot'.T0 = boot.T0
              /\ LastT0Read.by \in boot.workers
              /\ LastT0Read.time = Some(Unwrap(boot.T0) + LastT0Read.count)]_vars

\* Two workers have read T0 after a trigger at the epoch MaxEpoch, for
\* different counts
C39_Witness ==
    /\ boot.pc = "running"
    /\ boot.T0 = Some(MaxEpoch)
    /\ Len(boot.reads) = MaxT0Reads
    /\ boot.reads[1].by # boot.reads[2].by
    /\ boot.reads[1].time # boot.reads[2].time

\* ------------------------------------------------------ stokes_i properties
\* The integer Stokes I of channel c, from 1, as simd_stokes computes it from
\* the payload given
StokesInt(c) ==
    StokesLanes(SubSeq(stokes.a, 16 * ((c - 1) \div 8) + 1, 16 * ((c - 1) \div 8) + 16),
                SubSeq(stokes.b, 16 * ((c - 1) \div 8) + 1, 16 * ((c - 1) \div 8) + 16))
        [((c - 1) % 8) + 1]

\* The sum of the four squares of channel c, without any width
SumSquares(c) ==
    Re(stokes.a, c - 1) ^ 2 + Im(stokes.a, c - 1) ^ 2
    + Re(stokes.b, c - 1) ^ 2 + Im(stokes.b, c - 1) ^ 2

StokesDone == stokes.dst # <<>>

\* C40 as stated: in every channel the integer Stokes I is at most 65535
C40_FitsU16 == StokesDone => \A c \in 1..CHANNELS : StokesInt(c) <= 65535

\* C40: in every channel the integer Stokes I is the sum of the four squares,
\* is at most 65536 = 4 * 128^2 and reaches 65536 exactly when all four
\* components are -128; it is held in an i32, and dst gets it divided by
\* 16384 exactly
C40_Claim ==
    StokesDone =>
        /\ Len(stokes.dst) = CHANNELS
        /\ \A c \in 1..CHANNELS :
              /\ StokesInt(c) = SumSquares(c)
              /\ StokesInt(c) <= 65536
              /\ StokesInt(c) > 65535 <=>
                     /\ Re(stokes.a, c - 1) = -128 /\ Im(stokes.a, c - 1) = -128
                     /\ Re(stokes.b, c - 1) = -128 /\ Im(stokes.b, c - 1) = -128
              /\ stokes.dst[c].m * 2 ^ (stokes.dst[c].e + 2 * SCALE_LOG2)
                     = StokesInt(c) * 2 ^ SCALE_LOG2

\* stokes_i has run on a payload whose first channel has all four components
\* at -128
C40_Witness ==
    /\ StokesDone
    /\ StokesInt(1) = 65536
    /\ stokes.dst[1] = [m |-> 1, e |-> 2]

\* -------------------------------------------------------- specifications
\* Capture running, the ring untouched
InitCapture == CaptureInit /\ RingIdle /\ TaskIdle /\ InjectIdle /\ PipeInit /\ WorkIdle
CaptureNext == CaptureCheck \/ CaptureRecv \/ Shutdown
SpecCapture == InitCapture /\ [][CaptureNext]_vars

\* Capture running, its thread scheduled again and again: the test of the
\* shutdown at the top of the loop is made whenever the loop is there.
\* Datagrams and the signal come from outside and may never come; while
\* none comes, Capture::capture stays in its loop over WouldBlock.
InitCaptureFair == CaptureInit /\ RingIdle /\ TaskIdle /\ InjectIdle /\ PipeInit /\ WorkIdle
CaptureFairNext == CaptureCheck \/ CaptureRecv \/ Shutdown
SpecCaptureFair == InitCaptureFair /\ [][CaptureFairNext]_vars /\ WF_vars(CaptureCheck)

\* A ring of any modelled capacity under push, reset and dump; capture idle
InitRing == CaptureInit /\ RingInit /\ TaskIdle /\ InjectIdle /\ PipeInit /\ WorkIdle
RingNext == RingPush \/ RingReset \/ RingDump
SpecRing == InitRing /\ [][RingNext]_vars

\* trigger_dump called on rings of capacities below and above DUMP_SIZE
InitTrigger == TriggerInit /\ TaskIdle /\ InjectIdle /\ PipeInit /\ WorkIdle
TriggerNext == RingTrigger
SpecTrigger == InitTrigger /\ [][TriggerNext]_vars

\* dump_task between trigger_task and the task feeding it payloads
InitDumpTask == CaptureInit /\ TaskRingInit /\ TaskInit /\ InjectIdle /\ PipeInit /\ WorkIdle
DumpTaskNext ==
    \/ TaskStop
    \/ TaskTrigger
    \/ TaskPoll
    \/ TaskReceive
    \/ TaskReset
    \/ TaskDrainTriggers
    \/ TaskDrainPayloads
    \/ TriggerTask
    \/ PayloadFeed
    \/ PayloadClose
    \/ Shutdown
SpecDumpTask == InitDumpTask /\ [][DumpTaskNext]_vars

\* inject called on one payload
InitInject == CaptureInit /\ RingIdle /\ TaskIdle /\ InjectInit /\ PipeInit /\ WorkIdle
InjectNext == Inject
SpecInject == InitInject /\ [][InjectNext]_vars

\* The pipeline fed by the FPGA, no trigger and no shutdown
InitPipeline == CaptureInit /\ PipeRingInit /\ TaskInit /\ InjectIdle /\ PipeInit /\ WorkIdle
PipelineNext ==
    \/ SourceSend
    \/ CaptureCheck
    \/ PipeRecv
    \/ Downsample
    \/ ExfilRecv
    \/ TaskPoll
    \/ TaskReceive
SpecPipeline == InitPipeline /\ [][PipelineNext]_vars

\* The count of the payloads of a sender that numbers its datagrams in
\* sequence, some of them lost
InitWire == CaptureInit /\ RingIdle /\ TaskIdle /\ InjectIdle /\ PipeInit /\ WireInit
WireNext == \E lost \in BOOLEAN : WireCapture(lost)
SpecWire == InitWire /\ [][WireNext]_vars

\* The threads and tasks of main from their start to the return of main.
\* The signal (Shutdown) comes from outside and may never come; no payload
\* reaches dump_task and no trigger arrives.
InitShutdown == CaptureInit /\ RingIdle /\ TaskInit /\ InjectIdle /\ PipeInit /\ ShutdownInit
ShutdownNext == Shutdown \/ ThreadStep
SpecShutdown == InitShutdown /\ [][ShutdownNext]_vars

\* Capture and the injection task on the channel between them, the turn of
\* capture on the first datagram taken statement by statement
InitFirstPacket == CaptureInit /\ RingIdle /\ TaskIdle /\ InjectIdle /\ PipeInit /\ WorkIdle
FirstPacketNext ==
    \/ CaptureCheck
    \/ CaptureFirstSend
    \/ CaptureFirstSwap
    \/ CaptureLater
    \/ InjTaskCheck
    \/ InjTaskRecvSent
SpecFirstPacket == InitFirstPacket /\ [][FirstPacketNext]_vars

\* stokes_i called on one payload
InitStokes ==
    /\ CaptureInit /\ RingIdle /\ TaskIdle /\ PipeInit
    /\ v3 \in BOOLEAN
    /\ inj_pl = BytePayload(0, <<>>, <<>>)
    /\ inj_orig = inj_pl
    /\ inj_log = <<>>
    /\ inj_ret = "Ok"
    /\ injections = <<[filename |-> PulseFiles[1], rows |-> 1]>>
    /\ inj_task = InjTaskStart(injections)
    /\ output = <<>>
    /\ injection_record_sender = <<>>
    /\ injection_events = <<>>
    /\ wire = WireStart(U64(0, 0))
    /\ exfil = [consumer |-> "dummy", pc |-> "check"]
    /\ threads = [t \in {"collect", "downsample", "web", "trigger"} |-> "run"]
    /\ sup = [pc |-> "await", joined |-> 0, result |-> "none"]
    /\ boot = Booted
    /\ StokesStart
StokesNext == StokesI
SpecStokes == InitStokes /\ [][StokesNext]_vars

\* start_pipeline from its entry, and the threads it spawns as far as they
\* read T0
InitBoot ==
    /\ CaptureInit /\ RingIdle /\ TaskIdle /\ InjectIdle /\ PipeInit
    /\ injections = <<[filename |-> PulseFiles[1], rows |-> 1]>>
    /\ inj_task = InjTaskStart(injections)
    /\ output = <<>>
    /\ injection_record_sender = <<>>
    /\ injection_events = <<>>
    /\ wire = WireStart(U64(0, 0))
    /\ exfil = [consumer |-> "dummy", pc |-> "check"]
    /\ threads = [t \in {"collect", "downsample", "web", "trigger"} |-> "run"]
    /\ sup = [pc |-> "await", joined |-> 0, result |-> "none"]
    /\ boot = BootStart
    /\ stokes = StokesIdle
BootNext == BootFpga \/ BootSetT0 \/ BootGains \/ BootSpawn \/ WorkerReadT0
SpecBoot == InitBoot /\ [][BootNext]_vars

\* pulse_injection_task on its own, fed payloads of consecutive counts
InitInjectTask == CaptureInit /\ RingIdle /\ TaskIdle /\ InjectIdle /\ PipeInit /\ InjTaskInit
InjectTaskNext == InjTaskCheck \/ InjTaskRecv \/ InjTaskSend \/ DbRecv \/ Shutdown
SpecInjectTask == InitInjectTask /\ [][InjectTaskNext]_vars

\* ------------------------------------------------------ capture properties
CountsOf(q) == [i \in 1..Len(q) |-> q[i].count]
NumSynth(q) == Cardinality({i \in 1..Len(q) : q[i].synth})
NumReal(q) == Cardinality({i \in 1..Len(q) : ~q[i].synth})

\* A step of CaptureRecv that took a correctly sized datagram
Received == Len(received') = Len(received) + 1
Arrived == received'[Len(received')]
Sent(i) == payload_sender'[Len(payload_sender) + i]

\* C1: the payloads forwarded on the payload queue have counts that increase
\* by exactly 1 from one to the next, starting at the count of the first
\* datagram received, whatever the arrival order, duplicates and gaps.
C1_ForwardedConsecutive ==
    Len(payload_sender) > 0 =>
        /\ Len(received) > 0
        /\ \A i \in 1..Len(payload_sender) :
             payload_sender[i].count = received[1].count + (i - 1)

\* C1 witness: a run with a duplicate and a gap has forwarded four payloads
C1_Witness ==
    /\ shuffled >= 1
    /\ drops >= 1
    /\ Len(payload_sender) >= 4

\* C2: a datagram with count > next_expected makes capture forward one
\* zero-filled payload for each missing m in [next_expected, count), in
\* ascending order, then the received payload itself; drops grows by
\* count - next_expected and next_expected becomes count + 1.
C2_GapZeroFill ==
    [][(Received /\ ~first_payload /\ Arrived.count > next_expected_count) =>
         LET gap == Arrived.count - next_expected_count IN
         /\ Len(payload_sender') = Len(payload_sender) + gap + 1
         /\ SubSeq(payload_sender', 1, Len(payload_sender)) = payload_sender
         /\ \A m \in 0..(gap - 1) :
              Sent(m + 1) = [count |-> next_expected_count + m, data |-> ZeroData,
                             synth |-> TRUE]
         /\ Sent(gap + 1) = [count |-> Arrived.count, data |-> Arrived.data,
                             synth |-> FALSE]
         /\ drops' = drops + gap
         /\ next_expected_count' = Arrived.count + 1]_vars

\* C2 witness: a gap of two was filled by two zero payloads and then the
\* received payload, which carried non-zero samples
C2_Witness ==
    \E i \in 1..(Len(payload_sender) - 2) :
        /\ payload_sender[i].synth /\ payload_sender[i].data = ZeroData
        /\ payload_sender[i + 1].synth
        /\ ~payload_sender[i + 2].synth /\ payload_sender[i + 2].data # ZeroData
        /\ drops >= 2

\* C3: a datagram other than the first with count < next_expected forwards
\* nothing, adds exactly 1 to shuffled and leaves next_expected and drops alone.
C3_PastDropped ==
    [][(Received /\ ~first_payload /\ Arrived.count < next_expected_count) =>
         /\ payload_sender' = payload_sender
         /\ shuffled' = shuffled + 1
         /\ next_expected_count' = next_expected_count
         /\ drops' = drops]_vars

\* C3 witness: a past datagram was discarded after payloads had been forwarded
C3_Witness ==
    /\ shuffled >= 1
    /\ Len(received) > NumReal(payload_sender)
    /\ Len(payload_sender) >= 2

\* C4: drops is the number of zero-filled payloads forwarded, shuffled the
\* number of datagrams discarded, so forwarded = processed - shuffled + drops;
\* the arrival order 0,1,3,2,4 forwards 0,1,2,3,4 where 2 is the synthesized
\* all-zero payload, the real 2 is not forwarded, shuffled = 1 and drops = 1.
C4_Counters ==
    /\ drops = NumSynth(payload_sender)
    /\ shuffled = Len(received) - NumReal(payload_sender)
    /\ Len(payload_sender) = processed - shuffled + drops
    /\ CountsOf(received) = <<0, 1, 3, 2, 4>> =>
         /\ CountsOf(payload_sender) = <<0, 1, 2, 3, 4>>
         /\ payload_sender[3] = [count |-> 2, data |-> ZeroData, synth |-> TRUE]
         /\ \A i \in {1, 2, 4, 5} : ~payload_sender[i].synth
         /\ payload_sender[4].data = received[3].data
         /\ shuffled = 1
         /\ drops = 1

\* C4 witness: the arrival order 0,1,3,2,4 with non-zero samples in the real 2
C4_Witness ==
    /\ CountsOf(received) = <<0, 1, 3, 2, 4>>
    /\ received[4].data # ZeroData

\* C23: FIRST_PACKET is written by capture once, with the count of the first
\* datagram it receives: a step changes it only by taking that datagram, and
\* from then on it holds that count whatever datagrams follow.
C23_FirstPacketOnce ==
    [][/\ FIRST_PACKET' # FIRST_PACKET =>
            /\ Received
            /\ first_payload /\ ~first_payload'
            /\ Len(received) = 0
            /\ FIRST_PACKET' = Arrived.count
       /\ Len(received) > 0 =>
            /\ ~first_payload
            /\ FIRST_PACKET = received[1].count
            /\ FIRST_PACKET' = FIRST_PACKET]_vars

\* C23 witness: a non-zero first count was published and a past datagram, a
\* gap and a later datagram followed it
C23_Witness ==
    /\ Len(received) >= 4
    /\ received[1].count > 0
    /\ FIRST_PACKET = received[1].count
    /\ shuffled >= 1
    /\ drops >= 1

\* A step of CaptureRecv that took a datagram whose length is not PAYLOAD_SIZE
TookWrongSize == cap_pc = "recv" /\ datagram_len' \notin {0, PAYLOAD_SIZE}

\* C24: a received datagram whose length is not 8200 bytes makes capture
\* return SizeMismatch: nothing is forwarded for it, drops and shuffled keep
\* their values and the capture loop stops.
C24_Claim ==
    [][TookWrongSize =>
         /\ cap_pc' = "err"
         /\ payload_sender' = payload_sender
         /\ drops' = drops
         /\ shuffled' = shuffled]_vars

\* The turn takes a datagram that fills the buffer
TakesPayload == cap_pc = "recv" /\ datagram_len' >= PAYLOAD_SIZE

\* C38: publishing the statistics never holds the capture loop up and never
\* changes what is forwarded: whether the sample is sent, dropped on a full
\* channel or not due, the turn ends at the top of the loop, processed is one
\* more, and drops, shuffled, next_expected_count and the payloads forwarded
\* are what the ordering of the datagram alone makes them; the stats channel
\* gets the one sample or nothing
C38_StatsApart ==
    [][TakesPayload =>
           /\ cap_pc' = "check"
           /\ processed' = processed + 1
           /\ Len(received') = Len(received) + 1
           /\ Order(received'[Len(received')])
           /\ stats_send' \in
                  {stats_send,
                   Append(stats_send, [drops |-> drops, processed |-> processed + 1,
                                       shuffled |-> shuffled])}]_vars

\* The stats channel is full, and payloads, zero fills among them, were
\* forwarded and a datagram from the past dropped after its last sample
C38_Witness ==
    /\ Len(stats_send) = MaxStats
    /\ processed >= stats_send[Len(stats_send)].processed + 3
    /\ drops > stats_send[Len(stats_send)].drops
    /\ shuffled > stats_send[Len(stats_send)].shuffled
    /\ cap_pc = "check"

\* C35: after the shutdown broadcast the capture thread leaves its loop and
\* returns in the end, also when no datagram arrives after the broadcast
C35_Claim == shutdown ~> (cap_pc \in {"done", "err"})

\* --------------------------------------------------------- ring properties
\* The two views of consecutive_views, A then B
ViewsConcat == RCat(consecutive_views[1], consecutive_views[2])

\* The counts of the oldest and of the newest payload the reference ring holds
HeldFirst == run.first + run.n - RLen(held)
HeldLast == run.first + run.n - 1

\* C5: starting from an empty ring of capacity C = 2^k (any k >= 0), after
\* pushing n >= 1 payloads with consecutive counts f, ..., f+n-1: full is
\* true exactly when n >= C, last = f+n-1, and oldest is the count of the
\* oldest sample still stored (f when n <= C, f+n-C when n > C).
C5_Claim ==
    run.n >= 1 =>
        /\ full <=> run.n >= capacity
        /\ last = Some(run.first + run.n - 1)
        /\ oldest = Some(IF run.n <= capacity THEN run.first
                         ELSE run.first + run.n - capacity)

\* C6: in every reachable ring state write_ptr is in [0, C); oldest is None
\* exactly when the ring holds no samples; when full, last = oldest + C - 1;
\* when not full and not empty, the ring holds write_ptr samples and
\* last = oldest + write_ptr - 1.
C6_Claim ==
    /\ write_ptr \in 0..(capacity - 1)
    /\ oldest = None <=> held = <<>>
    /\ full => last = Some(Unwrap(oldest) + capacity - 1)
    /\ (~full /\ held # <<>>) =>
         /\ RLen(held) = write_ptr
         /\ last = Some(Unwrap(oldest) + write_ptr - 1)

\* C7: in every reachable ring state the views A then B are exactly the
\* stored samples in increasing count order from oldest to last, each slot
\* holding the data of the payload with that count: A = slots [0, write_ptr)
\* and B empty when not full, A = slots [write_ptr, C) and B = slots
\* [0, write_ptr) when full.
C7_Claim ==
    /\ ViewsConcat = held
    /\ held # <<>> =>
         /\ oldest = Some(HeldFirst)
         /\ last = Some(HeldLast)
         /\ held = RFill(DataOf(HeldFirst), HeldLast - HeldFirst + 1)
    /\ ~full => /\ consecutive_views[1] = Rows(0, write_ptr)
                /\ consecutive_views[2] = <<>>
    /\ full => /\ consecutive_views[1] = Rows(write_ptr, capacity)
               /\ consecutive_views[2] = Rows(0, write_ptr)

\* C8: a push on a non-empty ring of a payload whose count is not last + 1
\* resets the ring to empty (write_ptr = 0, full = false, oldest = None,
\* last = None) and does not store that payload; the next payload pushed,
\* whatever its count, becomes the new oldest and last.
C8_NonMonotonicResets ==
    [][/\ (call'.op = "push" /\ last # None /\ call'.pl.count # Unwrap(last) + 1) =>
            /\ write_ptr' = 0
            /\ full' = FALSE
            /\ oldest' = None
            /\ last' = None
            /\ buffer' = buffer
       /\ (call.op = "push" /\ last = None /\ call'.op = "push") =>
            /\ oldest' = Some(call'.pl.count)
            /\ last' = Some(call'.pl.count)
            /\ RAt(buffer', 0) = call'.pl.data]_vars

\* C8 witness: the payload pushed after an offending push became oldest and
\* last, in slot 0, next to a slot still holding data of the run before
C8_Witness ==
    /\ call.op = "push"
    /\ oldest = Some(call.pl.count)
    /\ last = Some(call.pl.count)
    /\ write_ptr = 1
    /\ RAt(buffer, 0) = call.pl.data
    /\ RAt(buffer, 1) # DE_FILL
    /\ call.pl.count # RAt(buffer, 1) - 1

\* The request of the last call lies within oldest <= start <= stop <= oldest + C - 1
InRange ==
    /\ oldest # None
    /\ Unwrap(oldest) <= call.start
    /\ call.start <= call.stop
    /\ call.stop <= Unwrap(oldest) + capacity - 1

\* C9: for a full ring covering [oldest, oldest+C-1] at any write_ptr and any
\* request with oldest <= start <= stop <= oldest+C-1, dump writes a voltages
\* variable of stop-start+1 time samples whose sample i is the data of the
\* payload with count start+i, whether the request lies in view A, in view B
\* or spans the wrap point.
C9_Claim ==
    (/\ call.op = "dump"
     /\ full
     /\ RLen(held) = capacity
     /\ oldest = Some(HeldFirst)
     /\ InRange) =>
        /\ ret = "Ok"
        /\ file.exists
        /\ file.time = call.stop - call.start + 1
        /\ file.voltages = RFill(DataOf(call.start), call.stop - call.start + 1)

\* The request of the last call starts in view A and stops in view B
Spans ==
    LET a_len == RLen(consecutive_views[1]) IN
    /\ Unwrap(oldest) + a_len <= call.stop
    /\ Unwrap(oldest) + a_len > call.start

\* C26: when the request of dump spans the wrap point of a full ring, start
\* in view A and stop in view B, the time samples taken from A and those taken
\* from B are stop - start + 1 together, for every in-range request.
C26_Claim ==
    (/\ call.op = "dump"
     /\ full
     /\ RLen(held) = capacity
     /\ oldest = Some(HeldFirst)
     /\ InRange
     /\ Spans) =>
        LET s == SpanSlices(consecutive_views[1], consecutive_views[2],
                            RLen(consecutive_views[1]), Unwrap(oldest),
                            call.start, call.stop) IN
        /\ s.a_slice.ok
        /\ s.b_slice.ok
        /\ RLen(s.a_slice.rows) + RLen(s.b_slice.rows) = call.stop - call.start + 1

\* C10: dump creates no file, leaves the ring state unchanged and returns
\* without an error whenever the ring is empty or the request is not within
\* oldest <= start <= stop <= oldest + C - 1.
C10_Claim ==
    [][(call'.op = "dump" /\ ~InRange') =>
         /\ ret' = "Ok"
         /\ file' = NoFile
         /\ UNCHANGED <<capacity, write_ptr, buffer, oldest, full, last>>]_vars

\* ------------------------------------------------ trigger_dump properties
Triggered == call.op = "trigger_dump"
TrueSample == call.tm.itime * call.downsample_factor + FIRST_PACKET
NominalBegin == TrueSample - DUMP_SIZE \div 2 + 1
NominalEnd == TrueSample + DUMP_SIZE \div 2
Newest == Unwrap(oldest) + capacity - 1
Max(a, b) == IF a > b THEN a ELSE b
Min(a, b) == IF a < b THEN a ELSE b

\* The file holds exactly the samples with counts lo..hi, in count order
FileHolds(lo, hi) ==
    /\ file.exists
    /\ file.time = hi - lo + 1
    /\ file.voltages = RFill(DataOf(lo), hi - lo + 1)

\* C11: for a ring with C > DUMP_SIZE holding [oldest, oldest+C-1] and a
\* trigger whose nominal window [true_sample - DUMP_SIZE/2 + 1, true_sample +
\* DUMP_SIZE/2] overlaps that range, trigger_dump dumps exactly the
\* intersection of the two (all DUMP_SIZE samples when the window is not
\* clipped), for every itime, those with true_sample < DUMP_SIZE/2 included.
C11_Claim ==
    (/\ Triggered
     /\ capacity > DUMP_SIZE
     /\ full
     /\ NominalBegin <= Newest
     /\ NominalEnd >= Unwrap(oldest)) =>
        /\ ret = "Ok"
        /\ FileHolds(Max(NominalBegin, Unwrap(oldest)), Min(NominalEnd, Newest))

\* The trigger of C12: a ring of capacity 1024 covering [O, O+C-1],
\* first_processed_count = 0, downsample_factor = 4 and itime = (O+C)/4
PastNewest1024 ==
    /\ Triggered
    /\ capacity = 1024
    /\ full
    /\ FIRST_PACKET = 0
    /\ call.downsample_factor = 4
    /\ call.tm.itime * 4 = Unwrap(oldest) + capacity

\* C12 as stated: given a ring of capacity C = 1024 covering [O, O+C-1],
\* first_processed_count = 0 and downsample_factor = 4, a trigger with
\* itime = (O+C)/4 makes trigger_dump fail and write no file.
C12_Claim == PastNewest1024 => (ret = "Err" /\ file = NoFile)

\* C12 amended: on that ring and trigger, C being at most DUMP_SIZE,
\* trigger_dump does not test the window but dumps [O, O+C-1]: it creates a
\* file of C time samples, and with write_ptr = 0 returns Ok, the file
\* holding the samples O..O+C-1; it returns an error only from dump, when
\* write_ptr is not 0, the voltages then being left unwritten.
C12_WholeRingDumped ==
    PastNewest1024 =>
        /\ file.exists
        /\ file.time = capacity
        /\ IF write_ptr = 0
           THEN ret = "Ok" /\ FileHolds(Unwrap(oldest), Newest)
           ELSE ret = "Err" /\ file.voltages = RFill(UNWRITTEN, capacity)

\* C12 witness: the trigger just past the newest sample of a full ring of
\* 1024 was answered with a file of all 1024 samples
C12_Witness ==
    /\ PastNewest1024
    /\ ret = "Ok"
    /\ file.exists
    /\ file.time = 1024

\* C13: trigger_dump returns an error and creates no file when the ring is
\* empty and, for C > DUMP_SIZE, when the nominal window lies entirely before
\* oldest or entirely after oldest + C - 1.
C13_Claim ==
    (/\ Triggered
     /\ \/ oldest = None
        \/ /\ capacity > DUMP_SIZE
           /\ (NominalEnd < Unwrap(oldest) \/ NominalBegin > Newest)) =>
        /\ ret = "Err"
        /\ file = NoFile

\* C14: when C <= DUMP_SIZE and the ring is not empty, trigger_dump writes a
\* file holding exactly the samples the ring holds, in count order, whatever
\* itime is, both for a full ring and for one only partly filled since the
\* last reset.
C14_Claim ==
    (Triggered /\ capacity <= DUMP_SIZE /\ oldest # None) =>
        /\ ret = "Ok"
        /\ file.exists
        /\ file.time = RLen(held)
        /\ file.voltages = held

\* ------------------------------------------------- dump_task properties
\* The datagram is UTF-8 text and the text is the JSON of a TriggerMessage
Decodes(bytes) == bytes.utf8 /\ bytes.json

\* dump_task takes the trigger at the head of the queue in this step
TakesTrigger ==
    /\ task_pc = "loop"
    /\ ~shutdown
    /\ signal_receiver # <<>>
    /\ signal_receiver' = Tail(signal_receiver)
    /\ triggers_sent' = triggers_sent

RingEmpty == oldest = None /\ last = None /\ write_ptr = 0 /\ ~full /\ held = <<>>

Draining == task_pc \in {"drain_triggers", "drain_payloads"}

\* C15: a step of dump_task that takes a trigger which decodes calls
\* trigger_dump and goes on to the reset; the reset leaves the ring empty
\* whatever trigger_dump returned and goes on to the drain of the triggers,
\* which ends only when no trigger is pending; the drain of the payloads
\* receives at most 2 x the capacity of the payload queue; and from the call
\* of trigger_dump to the end of the drain nothing is pushed into the ring
C15_Step ==
    /\ (TakesTrigger /\ Decodes(Head(signal_receiver))) =>
           /\ call'.op = "trigger_dump"
           /\ task_pc' = "reset"
    /\ (task_pc = "reset" /\ task_pc' # "reset") =>
           /\ call.op = "trigger_dump"
           /\ task_pc' = "drain_triggers"
           /\ RingEmpty'
    /\ (task_pc = "drain_triggers" /\ task_pc' # "drain_triggers") =>
           /\ signal_receiver = <<>>
           /\ task_pc' = "drain_payloads"
    /\ (Draining \/ task_pc = "reset") => (buffer' = buffer /\ (Draining => RingEmpty'))
    /\ drain_i' <= 2 * MaxDumpChan
C15_Claim == [][C15_Step]_vars

\* C16: a step of dump_task that takes a trigger which is not UTF-8 or not
\* the JSON of a TriggerMessage logs a warning and nothing else: no file is
\* created, the ring and the record of the last call on it are as before, the
\* triggers behind it and the queued payloads are kept, and the task is at
\* the top of its loop again
C16_Step ==
    (TakesTrigger /\ ~Decodes(Head(signal_receiver))) =>
        /\ warned' = warned + 1
        /\ UNCHANGED ringVars
        /\ signal_receiver' = Tail(signal_receiver)
        /\ payload_reciever' = payload_reciever
        /\ UNCHANGED <<drain_i, skipped_triggers, payload_closed>>
        /\ task_pc' = "loop"
C16_Claim == [][C16_Step]_vars

\* A trigger was discarded with a warning while the ring held a pushed
\* payload, a trigger was pending behind it and a payload was queued
C16_Witness ==
    /\ warned > 0
    /\ task_pc = "loop"
    /\ call.op = "push"
    /\ oldest # None
    /\ file = NoFile
    /\ signal_receiver # <<>>
    /\ payload_reciever # <<>>

\* dump_task takes a payload off its queue in this step; it pushes one
ReceivesPayload == Len(payload_reciever') < Len(payload_reciever)
PushesPayload == call'.op = "push" /\ call' # call

\* The part of a turn that follows a decoded trigger
InTriggerTurn == task_pc \in {"reset", "drain_triggers", "drain_payloads"}

\* A turn that passed the shutdown test with a trigger pending takes it
TriggerHandled ==
    (task_pc = "loop" /\ ~shutdown /\ signal_receiver # <<>> /\ task_pc' # task_pc) =>
        TakesTrigger

\* A payload is received and pushed only in a turn whose try_recv found no trigger
PushOnlyWithoutTrigger ==
    /\ (task_pc' = "recv" /\ task_pc # "recv") =>
           (task_pc = "loop" /\ signal_receiver = <<>>)
    /\ PushesPayload =>
           /\ task_pc = "recv"
           /\ ReceivesPayload
           /\ call'.pl = Head(payload_reciever)
    /\ (task_pc = "recv" /\ ReceivesPayload) => PushesPayload

StartsDump == call'.op = "trigger_dump" /\ call.op # "trigger_dump"

\* C28: a trigger that is in the trigger queue between the call of
\* trigger_dump and the end of the trigger drain leaves the queue only by being
\* thrown away, without a call on the ring or a file of its own; the drain
\* ends with the queue empty, so the trigger that starts the next dump was
\* queued after the drain.
C28_QueuedTriggersDiscarded ==
    [][/\ (task_pc \in {"reset", "drain_triggers"} /\ signal_receiver' # signal_receiver) =>
              \/ /\ Len(signal_receiver') = Len(signal_receiver) + 1
                 /\ SubSeq(signal_receiver', 1, Len(signal_receiver)) = signal_receiver
              \/ /\ task_pc = "drain_triggers"
                 /\ signal_receiver' = Tail(signal_receiver)
                 /\ skipped_triggers' = skipped_triggers + 1
                 /\ UNCHANGED ringVars
       /\ (task_pc = "reset" /\ task_pc' # "reset") => task_pc' = "drain_triggers"
       /\ (task_pc = "drain_triggers" /\ task_pc' # "drain_triggers") =>
              /\ signal_receiver = <<>>
              /\ signal_receiver' = <<>>
       /\ StartsDump => (TakesTrigger /\ Decodes(Head(signal_receiver)))]_vars

\* C28 witness: two triggers that were queued by the end of a dump have been
\* thrown away, the queue is empty and the task is back at the top of its loop
C28_Witness ==
    /\ skipped_triggers = 2
    /\ triggers_sent = 3
    /\ signal_receiver = <<>>
    /\ task_pc = "loop"
    /\ call.op = "reset"

\* ----------------------------------------------------- inject properties
Int8 == -128..127
ChannelIdx == 0..(CHANNELS - 1)

\* The pulse row with every value negated
Negated(sample) == [i \in 1..CHANNELS |-> Wrap8(0 - sample[i])]

\* No channel leaves the int8 range: not in the sum of either polarization
\* with the pulse row, and not in the negation of the pulse row
NoOverflow(pl, sample) ==
    \A c \in ChannelIdx :
        /\ Re(pl.pol_a, c) + sample[c + 1] \in Int8
        /\ Re(pl.pol_b, c) + sample[c + 1] \in Int8
        /\ 0 - sample[c + 1] \in Int8

\* inject has returned twice, the second pulse row the negation of the first
InjectedThenNegated ==
    /\ inj_ret = "Ok"
    /\ Len(inj_log) = 2
    /\ inj_log[2] = Negated(inj_log[1])

\* C19: after inject(pl, sample) and inject(pl, negated(sample)), with no
\* channel overflowing int8, pl is what it was before: the count and every
\* byte of both polarizations
C19_Claim == (InjectedThenNegated /\ NoOverflow(inj_orig, inj_log[1])) => inj_pl = inj_orig

\* A pulse row that is not all zero was injected and then taken out again
C19_Witness ==
    /\ InjectedThenNegated
    /\ NoOverflow(inj_orig, inj_log[1])
    /\ \E c \in ChannelIdx : inj_log[1][c + 1] # 0
    /\ inj_pl = inj_orig

\* inject returns in this step
Injects == inj_ret' = "Ok" /\ Len(inj_log') = Len(inj_log) + 1

\* The real part after is the real part before plus the pulse value, as an
\* int8: equal to the sum modulo 2^8, and the sum itself when that is an int8
Added(before, after, v) ==
    /\ after \in Int8
    /\ (after - before - v) % 256 = 0
    /\ (before + v \in Int8) => after = before + v

AllZero(pol) == \A i \in 1..(2 * CHANNELS) : pol[i] = 0
All127 == [i \in 1..CHANNELS |-> 127]

\* C20: a call of inject that returns has added sample[c] to the real part of
\* channel c of pol_a and of pol_b and has left every imaginary part and the
\* count as they were; after an all-127 row is injected into an all-zero
\* payload every real part is in -1..127 and every imaginary part is 0
C20_Step ==
    Injects =>
        LET sample == inj_log'[Len(inj_log')] IN
        /\ inj_pl'.count = inj_pl.count
        /\ \A c \in ChannelIdx :
             /\ Added(Re(inj_pl.pol_a, c), Re(inj_pl'.pol_a, c), sample[c + 1])
             /\ Added(Re(inj_pl.pol_b, c), Re(inj_pl'.pol_b, c), sample[c + 1])
             /\ Im(inj_pl'.pol_a, c) = Im(inj_pl.pol_a, c)
             /\ Im(inj_pl'.pol_b, c) = Im(inj_pl.pol_b, c)
        /\ (AllZero(inj_pl.pol_a) /\ AllZero(inj_pl.pol_b) /\ sample = All127) =>
             \A c \in ChannelIdx :
                 /\ Re(inj_pl'.pol_a, c) \in -1..127
                 /\ Re(inj_pl'.pol_b, c) \in -1..127
                 /\ Im(inj_pl'.pol_a, c) = 0
                 /\ Im(inj_pl'.pol_b, c) = 0
C20_Claim == [][C20_Step]_vars

\* The all-127 row was injected into an all-zero payload
C20_Witness ==
    /\ inj_ret = "Ok"
    /\ AllZero(inj_orig.pol_a)
    /\ AllZero(inj_orig.pol_b)
    /\ inj_log = <<All127>>
    /\ \A c \in ChannelIdx : Re(inj_pl.pol_a, c) = 127 /\ Re(inj_pl.pol_b, c) = 127

\* --------------------------------------------------- pipeline properties
\* Payloads dump_task has pushed: those sent to the ring queue and not in it
Pushed == cap_taken - Len(payload_reciever)

\* Datagrams of a count below k that were lost at the socket
LostBelow(k) == Cardinality({l \in lost_counts : l < k})

\* The data of the datagram of count k as capture received it
DataArrived(k) == DatagramData(k + 1 - LostBelow(k))

\* The counts whose payloads a ring pushed in count order from 0 holds, and
\* the row of the buffer the payload of count k was copied to
InRing == {k \in 0..(Pushed - 1) : k >= Pushed - capacity}
RowOfCount(k) == RAt(buffer, k % capacity)

\* drops counts the datagrams lost before the last one capture received
DropsCountLosses == drops = LostBelow(next_expected_count)

\* Every payload pushed had the count after the one pushed before it
RingConsecutive ==
    /\ run = IF Pushed = 0 THEN NoRun ELSE [first |-> 0, n |-> Pushed]
    /\ last = IF Pushed = 0 THEN None ELSE Some(Pushed - 1)

\* C17: with datagrams lost at the socket only while the exfil path is
\* backed up to capture, drops counts the lost datagrams, the counts pushed
\* into the ring are consecutive, and no row of the ring is a zero-filled
\* payload
C17_Claim ==
    /\ DropsCountLosses
    /\ RingConsecutive
    /\ \A k \in InRing : RowOfCount(k) # ZeroData

\* C17 as the code has it: drops counts the lost datagrams, the counts
\* pushed into the ring are consecutive, and the row of the ring for a count
\* is zero-filled exactly when the datagram of that count was lost
C17_ZeroFillsReachRing ==
    /\ DropsCountLosses
    /\ RingConsecutive
    /\ \A k \in InRing :
         RowOfCount(k) = IF k \in lost_counts THEN ZeroData ELSE DataArrived(k)

\* A datagram was lost under backpressure, drops has counted it and its
\* zero-filled payload is in the ring
C17_Witness ==
    /\ drops > 0
    /\ \E k \in InRing : k \in lost_counts /\ RowOfCount(k) = ZeroData

\* Every datagram was sent, none was lost, and every queue is empty
PipeDone ==
    /\ src_next = PipeCount
    /\ lost_counts = {}
    /\ sock = <<>>
    /\ CaptureBacklog = 0
    /\ payload_reciever = <<>>
    /\ ex_chan = <<>>

\* Frame i, from 1, of a stream downsampled by factor
FrameAt(i, factor) ==
    [first |-> (i - 1) * factor,
     of |-> [j \in 1..factor |-> DatagramData((i - 1) * factor + j)]]

\* C18: after PipeCount = 2 x capacity payloads with consecutive counts from
\* 0 have gone through the pipeline, the exfil sink has received
\* PipeCount / 2^downsample_power frames, frame i made of the payloads
\* (i-1) x 2^downsample_power onwards; every payload has been pushed into
\* the ring, which is full with oldest = capacity and holds the last
\* capacity payloads; and drops = 0
C18_Claim ==
    PipeDone =>
        /\ Len(exfil_out) = PipeCount \div 2 ^ downsample_power
        /\ \A i \in 1..Len(exfil_out) : exfil_out[i] = FrameAt(i, 2 ^ downsample_power)
        /\ Pushed = PipeCount
        /\ RingConsecutive
        /\ full
        /\ oldest = Some(PipeCount - capacity)
        /\ \A k \in InRing : RowOfCount(k) = DatagramData(k + 1)
        /\ drops = 0

\* The whole stream went through with downsample_power = 2
C18_Witness ==
    /\ PipeDone
    /\ downsample_power = 2
    /\ Len(exfil_out) = PipeCount \div 4
    /\ Len(exfil_out) > 1
    /\ full
    /\ oldest = Some(capacity)
    /\ drops = 0
====
